---- MODULE Spec2Model ----
(***************************************************************************)
(* A model of the Vortex VM: the instruction set (src/src/instruction.rs), *)
(* the execution engine (src/src/run.rs), the bytecode codec               *)
(* (src/src/assembler.rs), the assembler front end (src/src/spliter.rs)    *)
(* and the command line (src/src/main.rs).                                 *)
(*                                                                         *)
(* Text (a Rust String) is a sequence of byte values, as it is in memory:  *)
(* "JNZ 1" is <<74, 78, 90, 32, 49>>.  i32 values are integers of          *)
(* MinI32..MaxI32; every i32 and usize computation of the code is written  *)
(* so that its overflow is a case of the model, never an exact big sum.    *)
(***************************************************************************)
EXTENDS Integers, Sequences, FiniteSets, TLC

VARIABLES
    overflow_checks,  \* the build: TRUE = overflow checks on (debug), FALSE = wrapping (release)
    instructions,     \* execute: the Program being run
    stack,            \* execute: the operand stack, top at the tail
    mem,              \* execute: the linear memory, cell k at index k
    output_buffer,    \* execute: the bytes written so far
    i,                \* execute: the instruction pointer
    pc,               \* execute: "idle", "running", "returned" or "panicked"
    runs,             \* execute: what the earlier calls of this process returned
    program,          \* codec: the Program given to serialize_instructions
    bytecode,         \* codec: the bytes written, then read
    decoded,          \* codec: the Result of deserialize_instructions
    cpc,              \* codec: "idle", "start", "encoded", "damaged" or "decoded"
    source,           \* assembler: the lines of the source text, as str::lines yields them
    labels,           \* assembler: the label table, name -> instruction index
    result,           \* assembler: the instructions parsed, then resolved
    apc,              \* assembler: "idle", "start", "collected", "parsed" or "resolved"
    args,             \* main: env::args(), the name of the program first
    files,            \* main: the files there are, path -> bytes
    cli               \* main: "idle", "start", "run_file", "assemble_file_to_path",
                      \*       "execute", "usage", "version", "done" or "exit" (process::exit(1))

vmvars == <<overflow_checks, instructions, stack, mem, output_buffer, i, pc, runs>>

codecvars == <<program, bytecode, decoded, cpc>>

asmvars == <<source, labels, result, apc>>

clivars == <<args, files, cli>>

vars == <<vmvars, codecvars, asmvars, clivars>>

----------------------------------------------------------------------------
(* Bounds of the model and constants of the program. *)

\* vec![0; 2048]: the number of memory cells
MemSize == 2048

MaxI32 == 2147483647

MinI32 == -MaxI32 - 1

\* the most values a Program pushes before the instruction it is about
MaxPushes == 3

\* the deepest stack a loop of the Program is followed to
MaxStack == 6

\* the longest Program that is serialized
MaxCodecLen == 2

\* the most lines of a source text
MaxLines == 4

\* the most lines before and after the line a source text is about
MaxContext == 1

\* the most lines of a source text with comments
MaxCommentLines == 3

\* the most calls of execute after the first one
MaxRuns == 2

\* the most instructions of a Program made of instructions of every kind
MaxFrameLen == 2

\* the largest value the countdown loop starts from
MaxCount == 6

----------------------------------------------------------------------------
(* The instruction set. *)

Null == [op |-> "Null"]

Push(value) == [op |-> "Push", value |-> value]

Dup == [op |-> "Dup"]

Swap == [op |-> "Swap"]

Pop == [op |-> "Pop"]

Ret == [op |-> "Ret"]

Jiz(target) == [op |-> "Jiz", target |-> target]

Jnz(target) == [op |-> "Jnz", target |-> target]

AddS(n) == [op |-> "AddS", n |-> n]

Add == [op |-> "Add"]

SubS(n) == [op |-> "SubS", n |-> n]

Sub == [op |-> "Sub"]

MultS(n) == [op |-> "MultS", n |-> n]

Mult == [op |-> "Mult"]

DivS(n) == [op |-> "DivS", n |-> n]

Div == [op |-> "Div"]

MemWrite(addr, values) == [op |-> "MemWrite", addr |-> addr, values |-> values]

MemWriteS(addr, len) == [op |-> "MemWriteS", addr |-> addr, len |-> len]

MemRead(addr) == [op |-> "MemRead", addr |-> addr]

PrintI(addr, len) == [op |-> "Print", addr |-> addr, len |-> len]

----------------------------------------------------------------------------
(* i32 arithmetic.  An operation of the code that overflows panics in a    *)
(* build with overflow checks and wraps modulo 2^32 in a build without.    *)

\* the exact sum a + b is outside MinI32..MaxI32
AddOverflows(a, b) ==
    \/ b > 0 /\ a > MaxI32 - b
    \/ b < 0 /\ a < MinI32 - b

\* a + b modulo 2^32, as an i32
WrapAdd(a, b) ==
    IF b > 0 /\ a > MaxI32 - b THEN (a + MinI32) + (b + MinI32)
    ELSE IF b < 0 /\ a < MinI32 - b THEN (a + MaxI32 + 1) + (b + MaxI32 + 1)
    ELSE a + b

SubOverflows(a, b) ==
    \/ b < 0 /\ a > MaxI32 + b
    \/ b > 0 /\ a < MinI32 + b

\* a - b modulo 2^32, as an i32
WrapSub(a, b) ==
    IF b = MinI32
    THEN (IF a >= 0 THEN a + MinI32 ELSE (a + MaxI32) + 1)
    ELSE WrapAdd(a, -b)

\* the least integer >= x / y, for y > 0
CeilDiv(x, y) == (x \div y) + (IF x % y = 0 THEN 0 ELSE 1)

\* the exact product a * b is outside MinI32..MaxI32
MulOverflows(a, b) ==
    IF a = 0 \/ b = 0 THEN FALSE
    ELSE IF a > 0 /\ b > 0 THEN a > MaxI32 \div b
    ELSE IF a > 0 /\ b < 0 THEN b < CeilDiv(MinI32, a)
    ELSE IF a < 0 /\ b > 0 THEN a < CeilDiv(MinI32, b)
    ELSE IF a = MinI32 \/ b = MinI32 THEN TRUE
    ELSE (-a) > MaxI32 \div (-b)

\* a * (the low `bits` bits of b) modulo 2^32, by shift and add
RECURSIVE ShiftAddMul(_, _, _)
ShiftAddMul(a, b, bits) ==
    IF bits = 0 THEN 0
    ELSE LET rest == ShiftAddMul(WrapAdd(a, a), b \div 2, bits - 1)
         IN  IF b % 2 = 1 THEN WrapAdd(rest, a) ELSE rest

\* the product of a and the low 31 bits of b only
WrapMul_low_31_bits(a, b) == ShiftAddMul(a, b, 31)

\* a * b modulo 2^32, as an i32
WrapMul(a, b) == IF MulOverflows(a, b) THEN ShiftAddMul(a, b, 32) ELSE a * b

\* a / b of Rust for b # 0 and (a, b) # (MinI32, -1): the quotient truncated
\* toward zero (\div rounds toward minus infinity)
TruncDiv(a, b) ==
    IF b > 0 THEN (IF a >= 0 \/ a % b = 0 THEN a \div b ELSE (a \div b) + 1)
    ELSE IF b = MinI32 THEN (IF a = MinI32 THEN 1 ELSE 0)
    ELSE IF a >= 0 THEN -(a \div (-b))
    ELSE -(IF a % (-b) = 0 THEN a \div (-b) ELSE (a \div (-b)) + 1)

\* val + n as the build computes it: [panic, val]
I32Add(a, b) == [panic |-> overflow_checks /\ AddOverflows(a, b), val |-> WrapAdd(a, b)]

I32Sub(a, b) == [panic |-> overflow_checks /\ SubOverflows(a, b), val |-> WrapSub(a, b)]

I32Mul(a, b) == [panic |-> overflow_checks /\ MulOverflows(a, b), val |-> WrapMul(a, b)]

\* a / b for b # 0: MinI32 / -1 panics in every build
I32Div(a, b) ==
    IF a = MinI32 /\ b = -1 THEN [panic |-> TRUE, val |-> 0]
    ELSE [panic |-> FALSE, val |-> TruncDiv(a, b)]

----------------------------------------------------------------------------
(* usize arithmetic on values cast from i32.  `x as usize` of a negative x *)
(* is 2^64 + x; the sum of two casts is kept as the pair of i32 it comes   *)
(* from, and the operators below decide what the code asks of it.          *)

\* a as usize + b as usize exceeds usize::MAX
UsizeAddOverflows(a, b) ==
    \/ a < 0 /\ b < 0
    \/ a < 0 /\ b >= 0 /\ a + b >= 0
    \/ a >= 0 /\ b < 0 /\ a + b >= 0

\* the wrapped sum a as usize + b as usize is at most bound (0 <= bound <= MaxI32)
UsizeSumLeq(a, b, bound) ==
    IF a >= 0 /\ b >= 0 THEN a <= bound /\ b <= bound - a
    ELSE IF a < 0 /\ b < 0 THEN FALSE
    ELSE a + b >= 0 /\ a + b <= bound

\* the wrapped sum a as usize + b as usize, when UsizeSumLeq(a, b, bound) holds
UsizeSum(a, b) == a + b

----------------------------------------------------------------------------
(* Text helpers. *)

Last(s) == s[Len(s)]

Front(s) == SubSeq(s, 1, Len(s) - 1)

IsDigit(c) == c >= 48 /\ c <= 57

\* the digits of usize::MAX, 18446744073709551615
UsizeMaxDigits ==
    <<49, 56, 52, 52, 54, 55, 52, 52, 48, 55, 51, 55, 48, 57, 53, 53, 49, 54, 49, 53>>

RECURSIVE StripZeros(_)
StripZeros(d) == IF Len(d) > 1 /\ d[1] = 48 THEN StripZeros(Tail(d)) ELSE d

\* d <= e for digit strings of the same length
RECURSIVE DigitsLeq(_, _)
DigitsLeq(d, e) ==
    IF d = <<>> THEN TRUE
    ELSE IF d[1] # e[1] THEN d[1] < e[1]
    ELSE DigitsLeq(Tail(d), Tail(e))

\* the value of a digit string, or MaxI32 when it is larger than that
RECURSIVE DecimalValue(_)
DecimalValue(d) ==
    IF d = <<>> THEN 0
    ELSE LET p == DecimalValue(Front(d))
             c == Last(d) - 48
         IN  IF p > (MaxI32 - c) \div 10 THEN MaxI32 ELSE p * 10 + c

\* str::parse::<usize>: an optional '+', then one or more digits, no overflow
\* of 64 bits.  val is exact below MaxI32 and MaxI32 above it.
parse_usize(s) ==
    LET d == IF Len(s) > 0 /\ s[1] = 43 THEN Tail(s) ELSE s
        z == StripZeros(d)
        ok == /\ Len(d) > 0
              /\ \A k \in 1..Len(d) : IsDigit(d[k])
              /\ \/ Len(z) < Len(UsizeMaxDigits)
                 \/ Len(z) = Len(UsizeMaxDigits) /\ DigitsLeq(z, UsizeMaxDigits)
    IN  [ok |-> ok, val |-> IF ok THEN DecimalValue(z) ELSE 0]

----------------------------------------------------------------------------
(* The assembler: split_instructions and its three passes. *)

\* char::is_whitespace, of the characters of one byte
is_whitespace(c) == c \in {9, 10, 11, 12, 13, 32}

RECURSIVE trim_start(_)
trim_start(s) ==
    IF s # <<>> /\ is_whitespace(Head(s)) THEN trim_start(Tail(s)) ELSE s

RECURSIVE trim_end(_)
trim_end(s) ==
    IF s # <<>> /\ is_whitespace(Last(s)) THEN trim_end(Front(s)) ELSE s

\* str::trim
trim(s) == trim_end(trim_start(s))

\* str::find(c): the number of bytes before the first c, Len(s) when there is none
RECURSIVE find(_, _)
find(s, c) == IF s = <<>> \/ Head(s) = c THEN 0 ELSE 1 + find(Tail(s), c)

\* the number of bytes before the first whitespace, Len(s) when there is none
RECURSIVE WordLen(_)
WordLen(s) == IF s = <<>> \/ is_whitespace(Head(s)) THEN 0 ELSE 1 + WordLen(Tail(s))

\* str::split_whitespace
RECURSIVE split_whitespace(_)
split_whitespace(s) ==
    IF s = <<>> THEN <<>>
    ELSE IF is_whitespace(Head(s)) THEN split_whitespace(Tail(s))
    ELSE <<SubSeq(s, 1, WordLen(s))>>
           \o split_whitespace(SubSeq(s, WordLen(s) + 1, Len(s)))

\* to_uppercase that leaves the letters as they are
to_uppercase_keeps_case(s) == [k \in 1..Len(s) |-> s[k]]

\* str::to_uppercase, of the characters of one byte
to_uppercase(s) ==
    [k \in 1..Len(s) |-> IF s[k] >= 97 /\ s[k] <= 122 THEN s[k] - 32 ELSE s[k]]

\* the digits of i32::MAX and of -i32::MIN
I32MaxDigits == <<50, 49, 52, 55, 52, 56, 51, 54, 52, 55>>

I32MinDigits == <<50, 49, 52, 55, 52, 56, 51, 54, 52, 56>>

\* str::parse::<i32>: an optional '+' or '-', then one or more digits, the
\* value in MinI32..MaxI32
parse_i32(s) ==
    LET signed == Len(s) > 0 /\ s[1] \in {43, 45}
        negative == Len(s) > 0 /\ s[1] = 45
        d == IF signed THEN Tail(s) ELSE s
        z == StripZeros(d)
        limit == IF negative THEN I32MinDigits ELSE I32MaxDigits
        ok == /\ Len(d) > 0
              /\ \A k \in 1..Len(d) : IsDigit(d[k])
              /\ \/ Len(z) < Len(limit)
                 \/ Len(z) = Len(limit) /\ DigitsLeq(z, limit)
    IN  [ok |-> ok,
         val |-> IF ~ok THEN 0
                 ELSE IF ~negative THEN DecimalValue(z)
                 ELSE IF z = I32MinDigits THEN MinI32
                 ELSE -DecimalValue(z)]

\* usize::to_string
RECURSIVE to_string(_)
to_string(n) ==
    IF n < 10 THEN <<48 + n>> ELSE Append(to_string(n \div 10), 48 + (n % 10))

\* extract_code_portion that does not cut the line at the ';'
extract_code_portion_keeps_comment(line) == trim(line)

\* Extracts the code portion of a line, removing comments and whitespace.
extract_code_portion(line) ==
    LET trimmed == trim(line)
        semicolon_pos == find(trimmed, 59)
    IN  IF semicolon_pos < Len(trimmed)
        THEN trim(SubSeq(trimmed, 1, semicolon_pos))
        ELSE trimmed

\* Checks if a line is a comment (starts with ';' or is empty)
is_comment_line(line) == line = <<>> \/ Head(line) = 59

\* Checks if a line is a label definition (ends with ':')
is_label_definition(line) == line # <<>> /\ Last(line) = 58

\* Extracts the label name from a label definition line
extract_label_name(line) ==
    trim(IF line # <<>> /\ Last(line) = 58 THEN Front(line) ELSE line)

Some(ins) == [some |-> TRUE, instruction |-> ins]

None == [some |-> FALSE]

parse_push_instruction(parts) ==
    IF Len(parts) = 2 /\ parse_i32(parts[2]).ok
    THEN Some(Push(parse_i32(parts[2]).val))
    ELSE None

\* JIZ, JNZ: the target is kept as text; constructor is "Jiz" or "Jnz"
parse_jump_instruction(parts, constructor) ==
    IF Len(parts) = 2
    THEN Some([op |-> constructor, target |-> parts[2]])
    ELSE None

\* ADDS, SUBS, MULTS, DIVS; constructor is "AddS", "SubS", "MultS" or "DivS"
parse_arithmetic_immediate(parts, constructor) ==
    IF Len(parts) = 2 /\ parse_i32(parts[2]).ok
    THEN Some([op |-> constructor, n |-> parse_i32(parts[2]).val])
    ELSE None

\* the tokens after the address that parse as i32, in order
RECURSIVE FilterValues(_)
FilterValues(tokens) ==
    IF tokens = <<>> THEN <<>>
    ELSE (IF parse_i32(Head(tokens)).ok THEN <<parse_i32(Head(tokens)).val>> ELSE <<>>)
           \o FilterValues(Tail(tokens))

\* parse_memwrite_instruction that drops the line for a value that does not parse
parse_memwrite_instruction_strict(parts) ==
    IF /\ Len(parts) >= 2
       /\ \A k \in 2..Len(parts) : parse_i32(parts[k]).ok
    THEN Some(MemWrite(parse_i32(parts[2]).val, FilterValues(SubSeq(parts, 3, Len(parts)))))
    ELSE None

parse_memwrite_instruction(parts) ==
    IF Len(parts) >= 2 /\ parse_i32(parts[2]).ok
    THEN Some(MemWrite(parse_i32(parts[2]).val, FilterValues(SubSeq(parts, 3, Len(parts)))))
    ELSE None

parse_memwrites_instruction(parts) ==
    IF Len(parts) = 3 /\ parse_i32(parts[2]).ok /\ parse_i32(parts[3]).ok
    THEN Some(MemWriteS(parse_i32(parts[2]).val, parse_i32(parts[3]).val))
    ELSE None

parse_memread_instruction(parts) ==
    IF Len(parts) = 2 /\ parse_i32(parts[2]).ok
    THEN Some(MemRead(parse_i32(parts[2]).val))
    ELSE None

parse_print_instruction(parts) ==
    IF Len(parts) = 3 /\ parse_i32(parts[2]).ok /\ parse_i32(parts[3]).ok
    THEN Some(PrintI(parse_i32(parts[2]).val, parse_i32(parts[3]).val))
    ELSE None

\* Parses a single instruction line into an Instruction
parse_instruction_line(line) ==
    LET parts == split_whitespace(line)
        mnemonic == to_uppercase(parts[1])
    IN  IF parts = <<>> THEN None
        ELSE CASE mnemonic = <<78, 85, 76, 76>> -> Some(Null)  \* NULL
               [] mnemonic = <<80, 85, 83, 72>> -> parse_push_instruction(parts)  \* PUSH
               [] mnemonic = <<80, 79, 80>> -> Some(Pop)  \* POP
               [] mnemonic = <<68, 85, 80>> -> Some(Dup)  \* DUP
               [] mnemonic = <<83, 87, 65, 80>> -> Some(Swap)  \* SWAP
               [] mnemonic = <<82, 69, 84>> -> Some(Ret)  \* RET
               [] mnemonic = <<74, 73, 90>> -> parse_jump_instruction(parts, "Jiz")  \* JIZ
               [] mnemonic = <<74, 78, 90>> -> parse_jump_instruction(parts, "Jnz")  \* JNZ
               [] mnemonic = <<65, 68, 68>> -> Some(Add)  \* ADD
               [] mnemonic = <<65, 68, 68, 83>> ->  \* ADDS
                    parse_arithmetic_immediate(parts, "AddS")
               [] mnemonic = <<83, 85, 66>> -> Some(Sub)  \* SUB
               [] mnemonic = <<83, 85, 66, 83>> ->  \* SUBS
                    parse_arithmetic_immediate(parts, "SubS")
               [] mnemonic = <<77, 85, 76, 84>> -> Some(Mult)  \* MULT
               [] mnemonic = <<77, 85, 76, 84, 83>> ->  \* MULTS
                    parse_arithmetic_immediate(parts, "MultS")
               [] mnemonic = <<68, 73, 86>> -> Some(Div)  \* DIV
               [] mnemonic = <<68, 73, 86, 83>> ->  \* DIVS
                    parse_arithmetic_immediate(parts, "DivS")
               [] mnemonic = <<77, 69, 77, 87, 82, 73, 84, 69>> ->  \* MEMWRITE
                    parse_memwrite_instruction(parts)
               [] mnemonic = <<77, 69, 77, 87, 82, 73, 84, 69, 83>> ->  \* MEMWRITES
                    parse_memwrites_instruction(parts)
               [] mnemonic = <<77, 69, 77, 82, 69, 65, 68>> ->  \* MEMREAD
                    parse_memread_instruction(parts)
               [] mnemonic = <<80, 82, 73, 78, 84>> ->  \* PRINT
                    parse_print_instruction(parts)
               [] OTHER -> None

\* HashMap::insert
\* HashMap::insert that keeps the value of a key that is already there
Insert_keeps_first(map, key, value) ==
    [k \in DOMAIN map \cup {key} |-> IF k \in DOMAIN map THEN map[k] ELSE value]

Insert(map, key, value) == [k \in DOMAIN map \cup {key} |-> IF k = key THEN value ELSE map[k]]

\* First pass: the loop of collect_labels over the lines left
RECURSIVE CollectFrom(_, _, _)
CollectFrom(lines, instruction_index, map) ==
    IF lines = <<>> THEN map
    ELSE LET clean_line == extract_code_portion(Head(lines))
         IN  IF clean_line = <<>> \/ is_comment_line(clean_line)
             THEN CollectFrom(Tail(lines), instruction_index, map)
             ELSE IF is_label_definition(clean_line)
             THEN CollectFrom(Tail(lines), instruction_index,
                              Insert(map, extract_label_name(clean_line), instruction_index))
             ELSE CollectFrom(Tail(lines), instruction_index + 1, map)

collect_labels(lines) == CollectFrom(lines, 0, <<>>)

\* parse_instructions that gives up at the first line that is no instruction
RECURSIVE parse_instructions_aborts(_)
parse_instructions_aborts(lines) ==
    IF lines = <<>> THEN <<>>
    ELSE LET clean_line == extract_code_portion(Head(lines))
         IN  IF \/ clean_line = <<>>
                \/ is_comment_line(clean_line)
                \/ is_label_definition(clean_line)
             THEN parse_instructions_aborts(Tail(lines))
             ELSE IF ~parse_instruction_line(clean_line).some THEN <<>>
             ELSE <<parse_instruction_line(clean_line).instruction>>
                    \o parse_instructions_aborts(Tail(lines))

\* Second pass: the instructions of the lines, labels and comments ignored
RECURSIVE parse_instructions(_)
parse_instructions(lines) ==
    IF lines = <<>> THEN <<>>
    ELSE LET clean_line == extract_code_portion(Head(lines))
         IN  IF \/ clean_line = <<>>
                \/ is_comment_line(clean_line)
                \/ is_label_definition(clean_line)
                \/ ~parse_instruction_line(clean_line).some
             THEN parse_instructions(Tail(lines))
             ELSE <<parse_instruction_line(clean_line).instruction>>
                    \o parse_instructions(Tail(lines))

\* Third pass: the target of one instruction, a label replaced by its index
resolve_label_reference(ins, map) ==
    IF ins.op \in {"Jiz", "Jnz"} /\ ins.target \in DOMAIN map
    THEN [ins EXCEPT !.target = to_string(map[ins.target])]
    ELSE ins

resolve_label_references(instrs, map) ==
    [k \in 1..Len(instrs) |-> resolve_label_reference(instrs[k], map)]

\* The Program of a source text: the three passes
split_instructions(lines) ==
    resolve_label_references(parse_instructions(lines), collect_labels(lines))

----------------------------------------------------------------------------
(* The codec: serialize_instructions and deserialize_instructions. *)

\* i32::to_le_bytes, and u32::to_le_bytes of a length below 2^31
to_le_bytes(v) ==
    <<v % 256, (v \div 256) % 256, (v \div 65536) % 256, (v \div 16777216) % 256>>

\* i32::from_le_bytes of the four bytes after offset
i32_from_le_bytes(bytes, offset) ==
    LET b3 == bytes[offset + 4]
    IN  bytes[offset + 1] + 256 * bytes[offset + 2] + 65536 * bytes[offset + 3]
          + 16777216 * (IF b3 >= 128 THEN b3 - 256 ELSE b3)

\* u32::from_le_bytes of the four bytes after offset; a count of 2^31 or more
\* is given as MaxI32: it is only compared with the values a buffer can hold
u32_from_le_bytes(bytes, offset) ==
    IF bytes[offset + 4] >= 128 THEN MaxI32 ELSE i32_from_le_bytes(bytes, offset)

\* Serializes a string to binary format (null-terminated)
serialize_string(str) == str \o <<0>>

RECURSIVE SerializeValues(_)
SerializeValues(values) ==
    IF values = <<>> THEN <<>>
    ELSE to_le_bytes(Head(values)) \o SerializeValues(Tail(values))

\* serialize_instruction with the tags of Add and Sub exchanged
serialize_instruction_exchanged_tags(ins) ==
    CASE ins.op = "Null" -> <<0>>
      [] ins.op = "Push" -> <<1>> \o to_le_bytes(ins.value)
      [] ins.op = "Dup" -> <<2>>
      [] ins.op = "Swap" -> <<3>>
      [] ins.op = "Pop" -> <<4>>
      [] ins.op = "Ret" -> <<5>>
      [] ins.op = "Jiz" -> <<6>> \o serialize_string(ins.target)
      [] ins.op = "Jnz" -> <<7>> \o serialize_string(ins.target)
      [] ins.op = "AddS" -> <<8>> \o to_le_bytes(ins.n)
      [] ins.op = "Add" -> <<11>>
      [] ins.op = "SubS" -> <<10>> \o to_le_bytes(ins.n)
      [] ins.op = "Sub" -> <<9>>
      [] ins.op = "MultS" -> <<12>> \o to_le_bytes(ins.n)
      [] ins.op = "Mult" -> <<13>>
      [] ins.op = "DivS" -> <<14>> \o to_le_bytes(ins.n)
      [] ins.op = "Div" -> <<15>>
      [] ins.op = "MemWrite" ->
           <<16>> \o to_le_bytes(ins.addr) \o to_le_bytes(Len(ins.values))
             \o SerializeValues(ins.values)
      [] ins.op = "MemWriteS" -> <<17>> \o to_le_bytes(ins.addr) \o to_le_bytes(ins.len)
      [] ins.op = "MemRead" -> <<18>> \o to_le_bytes(ins.addr)
      [] ins.op = "Print" -> <<19>> \o to_le_bytes(ins.addr) \o to_le_bytes(ins.len)

\* Serializes a single instruction to binary format
serialize_instruction(ins) ==
    CASE ins.op = "Null" -> <<0>>
      [] ins.op = "Push" -> <<1>> \o to_le_bytes(ins.value)
      [] ins.op = "Dup" -> <<2>>
      [] ins.op = "Swap" -> <<3>>
      [] ins.op = "Pop" -> <<4>>
      [] ins.op = "Ret" -> <<5>>
      [] ins.op = "Jiz" -> <<6>> \o serialize_string(ins.target)
      [] ins.op = "Jnz" -> <<7>> \o serialize_string(ins.target)
      [] ins.op = "AddS" -> <<8>> \o to_le_bytes(ins.n)
      [] ins.op = "Add" -> <<9>>
      [] ins.op = "SubS" -> <<10>> \o to_le_bytes(ins.n)
      [] ins.op = "Sub" -> <<11>>
      [] ins.op = "MultS" -> <<12>> \o to_le_bytes(ins.n)
      [] ins.op = "Mult" -> <<13>>
      [] ins.op = "DivS" -> <<14>> \o to_le_bytes(ins.n)
      [] ins.op = "Div" -> <<15>>
      [] ins.op = "MemWrite" ->
           <<16>> \o to_le_bytes(ins.addr) \o to_le_bytes(Len(ins.values))
             \o SerializeValues(ins.values)
      [] ins.op = "MemWriteS" -> <<17>> \o to_le_bytes(ins.addr) \o to_le_bytes(ins.len)
      [] ins.op = "MemRead" -> <<18>> \o to_le_bytes(ins.addr)
      [] ins.op = "Print" -> <<19>> \o to_le_bytes(ins.addr) \o to_le_bytes(ins.len)

RECURSIVE serialize_instructions(_)
\* Serializes instructions to binary format
serialize_instructions(prog) ==
    IF prog = <<>> THEN <<>>
    ELSE serialize_instruction(Head(prog)) \o serialize_instructions(Tail(prog))

\* String::from_utf8 accepts the bytes: they are well-formed UTF-8
RECURSIVE Utf8Valid(_)
Utf8Valid(b) ==
    LET Cont(k) == k <= Len(b) /\ b[k] >= 128 /\ b[k] <= 191
        Second(lo, hi) == 2 <= Len(b) /\ b[2] >= lo /\ b[2] <= hi
        Rest(n) == Utf8Valid(SubSeq(b, n + 1, Len(b)))
    IN  IF b = <<>> THEN TRUE
        ELSE IF b[1] < 128 THEN Rest(1)
        ELSE IF b[1] >= 194 /\ b[1] <= 223 THEN Cont(2) /\ Rest(2)
        ELSE IF b[1] = 224 THEN Second(160, 191) /\ Cont(3) /\ Rest(3)
        ELSE IF b[1] = 237 THEN Second(128, 159) /\ Cont(3) /\ Rest(3)
        ELSE IF b[1] >= 225 /\ b[1] <= 239 THEN Cont(2) /\ Cont(3) /\ Rest(3)
        ELSE IF b[1] = 240 THEN Second(144, 191) /\ Cont(3) /\ Cont(4) /\ Rest(4)
        ELSE IF b[1] = 244 THEN Second(128, 143) /\ Cont(3) /\ Cont(4) /\ Rest(4)
        ELSE IF b[1] >= 241 /\ b[1] <= 243 THEN Cont(2) /\ Cont(3) /\ Cont(4) /\ Rest(4)
        ELSE FALSE

\* the number of bytes before the first zero byte, Len(bytes) when there is none
RECURSIVE ZeroAt(_)
ZeroAt(bytes) ==
    IF bytes = <<>> \/ Head(bytes) = 0 THEN 0 ELSE 1 + ZeroAt(Tail(bytes))

\* deserialize_string that takes the end of the buffer for a terminator
deserialize_string_to_end(bytes) ==
    LET end == ZeroAt(bytes)
    IN  IF ~Utf8Valid(SubSeq(bytes, 1, end))
        THEN [ok |-> FALSE, err |-> "Invalid UTF-8 string in bytecode"]
        ELSE [ok |-> TRUE, str |-> SubSeq(bytes, 1, end),
              consumed |-> IF end >= Len(bytes) THEN end ELSE end + 1]

\* Deserializes a string from binary format (null-terminated)
deserialize_string(bytes) ==
    LET end == ZeroAt(bytes)
    IN  IF end >= Len(bytes)
        THEN [ok |-> FALSE, err |-> "Unterminated string in bytecode"]
        ELSE IF ~Utf8Valid(SubSeq(bytes, 1, end))
        THEN [ok |-> FALSE, err |-> "Invalid UTF-8 string in bytecode"]
        ELSE [ok |-> TRUE, str |-> SubSeq(bytes, 1, end), consumed |-> end + 1]

RECURSIVE DeserializeValues(_, _, _)
\* the count values after offset
DeserializeValues(bytes, offset, count) ==
    IF count = 0 THEN <<>>
    ELSE <<i32_from_le_bytes(bytes, offset)>>
           \o DeserializeValues(bytes, offset + 4, count - 1)

Decoded(ins, consumed) == [ok |-> TRUE, instruction |-> ins, consumed |-> consumed]

Incomplete(what) == [ok |-> FALSE, err |-> what]

\* Deserializes a single instruction from binary format
deserialize_instruction(bytes) ==
    LET opcode == bytes[1]
        \* an opcode followed by one i32
        OneI32(Make(_), what) ==
            IF Len(bytes) < 1 + 4 THEN Incomplete(what)
            ELSE Decoded(Make(i32_from_le_bytes(bytes, 1)), 5)
        \* an opcode followed by two i32
        TwoI32(Make(_, _), what) ==
            IF Len(bytes) < 1 + 8 THEN Incomplete(what)
            ELSE Decoded(Make(i32_from_le_bytes(bytes, 1), i32_from_le_bytes(bytes, 5)), 9)
        \* an opcode followed by a string
        Target(Make(_)) ==
            LET t == deserialize_string(Tail(bytes))
            IN  IF t.ok THEN Decoded(Make(t.str), 1 + t.consumed) ELSE t
    IN  IF bytes = <<>> THEN Incomplete("Empty bytecode")
        ELSE CASE opcode = 0 -> Decoded(Null, 1)
               [] opcode = 1 -> OneI32(Push, "Incomplete Push instruction")
               [] opcode = 2 -> Decoded(Dup, 1)
               [] opcode = 3 -> Decoded(Swap, 1)
               [] opcode = 4 -> Decoded(Pop, 1)
               [] opcode = 5 -> Decoded(Ret, 1)
               [] opcode = 6 -> Target(Jiz)
               [] opcode = 7 -> Target(Jnz)
               [] opcode = 8 -> OneI32(AddS, "Incomplete AddS instruction")
               [] opcode = 9 -> Decoded(Add, 1)
               [] opcode = 10 -> OneI32(SubS, "Incomplete SubS instruction")
               [] opcode = 11 -> Decoded(Sub, 1)
               [] opcode = 12 -> OneI32(MultS, "Incomplete MultS instruction")
               [] opcode = 13 -> Decoded(Mult, 1)
               [] opcode = 14 -> OneI32(DivS, "Incomplete DivS instruction")
               [] opcode = 15 -> Decoded(Div, 1)
               [] opcode = 16 ->
                    IF Len(bytes) < 1 + 12
                    THEN Incomplete("Incomplete MemWrite instruction")
                    ELSE LET addr == i32_from_le_bytes(bytes, 1)
                             len == u32_from_le_bytes(bytes, 5)
                         IN  \* the loop fails at the first value that is not there
                             IF len > (Len(bytes) - 9) \div 4
                             THEN Incomplete("Incomplete MemWrite values")
                             ELSE Decoded(MemWrite(addr, DeserializeValues(bytes, 9, len)),
                                          9 + 4 * len)
               [] opcode = 17 -> TwoI32(MemWriteS, "Incomplete MemWriteS instruction")
               [] opcode = 18 -> OneI32(MemRead, "Incomplete MemRead instruction")
               [] opcode = 19 -> TwoI32(PrintI, "Incomplete Print instruction")
               [] OTHER -> Incomplete("Unknown opcode")

RECURSIVE DeserializeFrom(_, _, _)
\* the loop of deserialize_instructions, with offset bytes read into decoded_so_far
DeserializeFrom(bytes, offset, decoded_so_far) ==
    IF offset < Len(bytes)
    THEN LET r == deserialize_instruction(SubSeq(bytes, offset + 1, Len(bytes)))
         IN  IF r.ok
             THEN DeserializeFrom(bytes, offset + r.consumed,
                                  Append(decoded_so_far, r.instruction))
             ELSE [ok |-> FALSE, err |-> r.err]
    ELSE [ok |-> TRUE, instructions |-> decoded_so_far]

\* Deserializes instructions from binary format
deserialize_instructions(bytes) == DeserializeFrom(bytes, 0, <<>>)

----------------------------------------------------------------------------
(* The execution engine: the helpers of execute.  Each returns what it     *)
(* changes and the next instruction pointer; panic is TRUE when the code   *)
(* panics there (the process is then gone, and nothing else is read).      *)

\* execute_jiz without its test of the top: it jumps on any top
execute_jiz_any_top(st, prog, current_i, target) ==
    LET addr == parse_usize(target)
    IN  IF st # <<>> /\ addr.ok /\ addr.val < Len(prog)
        THEN addr.val
        ELSE current_i + 1

\* Jump instructions
execute_jiz(st, prog, current_i, target) ==
    LET addr == parse_usize(target)
    IN  IF st # <<>> /\ Last(st) = 0 /\ addr.ok /\ addr.val < Len(prog)
        THEN addr.val
        ELSE current_i + 1

\* execute_jnz that does not look at the value of the top of the stack
execute_jnz_any_top(st, prog, current_i, target) ==
    LET addr == parse_usize(target)
    IN  IF st # <<>> /\ addr.ok /\ addr.val < Len(prog)
        THEN addr.val
        ELSE current_i + 1

execute_jnz(st, prog, current_i, target) ==
    LET addr == parse_usize(target)
    IN  IF st # <<>> /\ Last(st) # 0 /\ addr.ok /\ addr.val < Len(prog)
        THEN addr.val
        ELSE current_i + 1

\* Arithmetic instructions
execute_adds(st, current_i, n) ==
    IF st # <<>>
    THEN LET r == I32Add(Last(st), n)
         IN  [panic |-> r.panic, stack |-> Append(Front(st), r.val), i |-> current_i + 1]
    ELSE [panic |-> FALSE, stack |-> st, i |-> current_i + 1]

execute_add(st, current_i) ==
    IF Len(st) >= 2
    THEN LET a == st[Len(st)]
             b == st[Len(st) - 1]
             r == I32Add(b, a)
         IN  [panic |-> r.panic, stack |-> Append(SubSeq(st, 1, Len(st) - 2), r.val),
              i |-> current_i + 1]
    ELSE [panic |-> FALSE, stack |-> st, i |-> current_i + 1]

execute_subs(st, current_i, n) ==
    IF st # <<>>
    THEN LET r == I32Sub(Last(st), n)
         IN  [panic |-> r.panic, stack |-> Append(Front(st), r.val), i |-> current_i + 1]
    ELSE [panic |-> FALSE, stack |-> st, i |-> current_i + 1]

execute_sub(st, current_i) ==
    IF Len(st) >= 2
    THEN LET a == st[Len(st)]
             b == st[Len(st) - 1]
             r == I32Sub(b, a)
         IN  [panic |-> r.panic, stack |-> Append(SubSeq(st, 1, Len(st) - 2), r.val),
              i |-> current_i + 1]
    ELSE [panic |-> FALSE, stack |-> st, i |-> current_i + 1]

\* execute_divs that pops the value it cannot divide
execute_divs_pops(st, current_i, n) ==
    IF st # <<>> /\ n # 0
    THEN LET r == I32Div(Last(st), n)
         IN  [panic |-> r.panic, stack |-> [st EXCEPT ![Len(st)] = r.val],
              i |-> current_i + 1]
    ELSE [panic |-> FALSE, stack |-> IF st # <<>> THEN Front(st) ELSE st,
          i |-> current_i + 1]

execute_divs(st, current_i, n) ==
    IF st # <<>> /\ n # 0
    THEN LET r == I32Div(Last(st), n)
         IN  [panic |-> r.panic, stack |-> [st EXCEPT ![Len(st)] = r.val],
              i |-> current_i + 1]
    ELSE [panic |-> FALSE, stack |-> st, i |-> current_i + 1]

\* execute_div that tests the divisor before it pops, as execute_divs does
execute_div_keeps(st, current_i) ==
    IF Len(st) >= 2 /\ st[Len(st)] # 0
    THEN LET r == I32Div(st[Len(st) - 1], st[Len(st)])
         IN  [panic |-> r.panic, stack |-> Append(SubSeq(st, 1, Len(st) - 2), r.val),
              i |-> current_i + 1]
    ELSE [panic |-> FALSE, stack |-> st, i |-> current_i + 1]

execute_div(st, current_i) ==
    IF Len(st) >= 2
    THEN LET a == st[Len(st)]
             b == st[Len(st) - 1]
             rest == SubSeq(st, 1, Len(st) - 2)
         IN  IF a # 0
             THEN LET r == I32Div(b, a)
                  IN  [panic |-> r.panic, stack |-> Append(rest, r.val),
                       i |-> current_i + 1]
             ELSE [panic |-> FALSE, stack |-> rest, i |-> current_i + 1]
    ELSE [panic |-> FALSE, stack |-> st, i |-> current_i + 1]

execute_mults(st, current_i, n) ==
    IF st # <<>>
    THEN LET r == I32Mul(Last(st), n)
         IN  [panic |-> r.panic, stack |-> [st EXCEPT ![Len(st)] = r.val],
              i |-> current_i + 1]
    ELSE [panic |-> FALSE, stack |-> st, i |-> current_i + 1]

execute_mult(st, current_i) ==
    IF Len(st) >= 2
    THEN LET a == st[Len(st)]
             b == st[Len(st) - 1]
             r == I32Mul(b, a)
         IN  [panic |-> r.panic, stack |-> Append(SubSeq(st, 1, Len(st) - 2), r.val),
              i |-> current_i + 1]
    ELSE [panic |-> FALSE, stack |-> st, i |-> current_i + 1]

\* Stack manipulation instructions
execute_dup(st, current_i) ==
    [panic |-> FALSE,
     stack |-> IF st # <<>> THEN Append(st, Last(st)) ELSE st,
     i |-> current_i + 1]

\* execute_swap that returns current_i: the Swap is executed again
execute_swap_repeats(st, current_i) ==
    [panic |-> FALSE,
     stack |-> IF Len(st) >= 2
               THEN SubSeq(st, 1, Len(st) - 2) \o <<st[Len(st)], st[Len(st) - 1]>>
               ELSE st,
     i |-> current_i]

\* execute_swap that drops the only value of a one-value stack
execute_swap_drops(st, current_i) ==
    [panic |-> FALSE,
     stack |-> IF Len(st) >= 2
               THEN SubSeq(st, 1, Len(st) - 2) \o <<st[Len(st)], st[Len(st) - 1]>>
               ELSE <<>>,
     i |-> current_i + 1]

execute_swap(st, current_i) ==
    [panic |-> FALSE,
     stack |-> IF Len(st) >= 2
               THEN LET a == st[Len(st)]
                        b == st[Len(st) - 1]
                    IN  SubSeq(st, 1, Len(st) - 2) \o <<a, b>>
               ELSE st,
     i |-> current_i + 1]

\* execute_memwrite that writes nothing when some value falls past the end
execute_memwrite_all_or_nothing(m, current_i, start_addr, values) ==
    [panic |-> FALSE,
     mem |-> [k \in 0..(MemSize - 1) |->
                 IF /\ start_addr >= 0 /\ start_addr + Len(values) <= MemSize
                    /\ k >= start_addr /\ k < start_addr + Len(values)
                 THEN values[k - start_addr + 1]
                 ELSE m[k]],
     i |-> current_i + 1]

\* execute_memwrite on a memory that grows to hold the values past its end
execute_memwrite_grows(m, current_i, start_addr, values) ==
    [panic |-> FALSE,
     mem |-> [k \in (DOMAIN m) \cup
                    (IF start_addr >= 0 /\ start_addr < MemSize
                     THEN start_addr..(start_addr + Len(values) - 1) ELSE {}) |->
                 IF /\ start_addr >= 0 /\ start_addr < MemSize
                    /\ k >= start_addr /\ k < start_addr + Len(values)
                 THEN values[k - start_addr + 1]
                 ELSE m[k]],
     i |-> current_i + 1]

\* Memory instructions
execute_memwrite(m, current_i, start_addr, values) ==
    LET \* start_addr as usize + j overflows usize
        Wraps(j) == start_addr < 0 /\ start_addr + j >= 0
        \* the cell values[j] is stored in, for j counted from 0
        Written(j) == start_addr + j >= 0 /\ start_addr + j < MemSize
        Js == 0..(Len(values) - 1)
    IN  IF start_addr < MemSize
        THEN [panic |-> overflow_checks /\ \E j \in Js : Wraps(j),
              mem |-> [k \in 0..(MemSize - 1) |->
                          IF k - start_addr \in Js /\ Written(k - start_addr)
                          THEN values[k - start_addr + 1]
                          ELSE m[k]],
              i |-> current_i + 1]
        ELSE [panic |-> FALSE, mem |-> m, i |-> current_i + 1]

\* execute_memwrites without writes.reverse(): the values are stored in the
\* order they are popped
execute_memwrites_popped_order(st, m, current_i, memory_index, write_len) ==
    IF UsizeSumLeq(memory_index, write_len, MemSize)
    THEN LET n == IF write_len < 0 THEN 0 ELSE IF write_len < Len(st) THEN write_len ELSE Len(st)
         IN  [panic |-> \/ overflow_checks /\ UsizeAddOverflows(memory_index, write_len)
                        \/ write_len < 0
                        \/ memory_index < 0 /\ n > 0,
              stack |-> SubSeq(st, 1, Len(st) - n),
              mem |-> [k \in 0..(MemSize - 1) |->
                          IF k >= memory_index /\ k < memory_index + n
                          THEN st[Len(st) - (k - memory_index)]
                          ELSE m[k]],
              i |-> current_i + 1]
    ELSE [panic |-> overflow_checks /\ UsizeAddOverflows(memory_index, write_len),
          stack |-> st, mem |-> m, i |-> current_i + 1]

execute_memwrites(st, m, current_i, memory_index, write_len) ==
    IF UsizeSumLeq(memory_index, write_len, MemSize)
    THEN LET \* the values popped: write_len of them, or all there are
             \* (none when the capacity overflows: nothing is popped before the panic)
             n == IF write_len < 0 THEN 0
                  ELSE IF write_len < Len(st) THEN write_len ELSE Len(st)
             writes == SubSeq(st, Len(st) - n + 1, Len(st))
         IN  [panic |-> \/ overflow_checks /\ UsizeAddOverflows(memory_index, write_len)
                        \* Vec::with_capacity(write_len as usize): capacity overflow
                        \/ write_len < 0
                        \* mem[memory_index as usize + 0]: index out of bounds
                        \/ memory_index < 0 /\ n > 0,
              stack |-> SubSeq(st, 1, Len(st) - n),
              mem |-> [k \in 0..(MemSize - 1) |->
                          IF k >= memory_index /\ k < memory_index + n
                          THEN writes[k - memory_index + 1]
                          ELSE m[k]],
              i |-> current_i + 1]
    ELSE [panic |-> overflow_checks /\ UsizeAddOverflows(memory_index, write_len),
          stack |-> st, mem |-> m, i |-> current_i + 1]

execute_memread(st, m, current_i, index) ==
    IF index >= MemSize
    THEN [panic |-> FALSE, stack |-> st, i |-> current_i + 1]
    ELSE IF index < 0
    THEN [panic |-> TRUE, stack |-> st, i |-> current_i + 1]
    ELSE [panic |-> FALSE, stack |-> Append(st, m[index]), i |-> current_i + 1]

\* write!(output_buffer, "{}", byte_val as u8 as char): the UTF-8 encoding of
\* the character U+0000..U+00FF whose code is the low byte of the cell
CharBytes(byte_val) ==
    LET b == byte_val % 256
    IN  IF b < 128 THEN <<b>> ELSE <<192 + (b \div 64), 128 + (b % 64)>>

RECURSIVE WriteCells(_, _, _)
\* the bytes written for the cells start .. end - 1
WriteCells(m, start, end) ==
    IF start >= end THEN <<>>
    ELSE CharBytes(m[start]) \o WriteCells(m, start + 1, end)

\* execute_print that takes a start before the memory for cell 0
execute_print_wrapped_range(out, m, current_i, start_addr, length) ==
    [panic |-> overflow_checks /\ UsizeAddOverflows(start_addr, length),
     out |-> IF UsizeSumLeq(start_addr, length, MemSize)
             THEN out \o WriteCells(m, IF start_addr >= 0 THEN start_addr ELSE 0,
                                    UsizeSum(start_addr, length))
             ELSE out,
     i |-> current_i + 1]

execute_print(out, m, current_i, start_addr, length) ==
    IF UsizeSumLeq(start_addr, length, MemSize)
    THEN [panic |-> overflow_checks /\ UsizeAddOverflows(start_addr, length),
          \* take(end).skip(start): nothing when start is 2^64 + start_addr
          out |-> IF start_addr >= 0
                  THEN out \o WriteCells(m, start_addr, UsizeSum(start_addr, length))
                  ELSE out,
          i |-> current_i + 1]
    ELSE [panic |-> overflow_checks /\ UsizeAddOverflows(start_addr, length),
          out |-> out, i |-> current_i + 1]

----------------------------------------------------------------------------
(* execute: one action per turn of its loop. *)

\* the Programs a process runs one after the other: one that leaves a value on
\* the stack, writes a cell and prints it; one that reads and prints cells it
\* did not write; one that writes a cell and returns early; one that
\* overflows
RunPrograms ==
    {<<Push(7), Push(72), MemWriteS(0, 1), PrintI(0, 1)>>,
     <<MemRead(0), Dup, PrintI(0, 2)>>,
     <<MemWrite(1, <<105>>), Pop, Ret, Push(1)>>,
     <<Add, Push(MaxI32), AddS(1)>>}

\* the state an iteration of the loop leaves, or the panic
Commit(panic, st, m, out, next_i) ==
    IF panic
    THEN /\ pc' = "panicked"
         /\ UNCHANGED <<stack, mem, output_buffer, i>>
    ELSE /\ pc' = "running"
         /\ stack' = st
         /\ mem' = m
         /\ output_buffer' = out
         /\ i' = next_i

\* execute that starts with a memory whose cell 0 is not 0
Execute_dirty_memory(prog, out) ==
    /\ instructions = prog
    /\ stack = <<>>
    /\ mem = [k \in 0..(MemSize - 1) |-> IF k = 0 THEN 1 ELSE 0]
    /\ output_buffer = out
    /\ i = 0
    /\ pc = "running"
    /\ runs = <<>>

\* let mut stack = Vec::new(); let mut mem = vec![0; 2048]; let mut i = 0;
Execute(prog, out) ==
    /\ instructions = prog
    /\ stack = <<>>
    /\ mem = [k \in 0..(MemSize - 1) |-> 0]
    /\ output_buffer = out
    /\ i = 0
    /\ pc = "running"
    /\ runs = <<>>

\* match &instructions[i] { ... }
Step ==
    /\ pc = "running"
    /\ i < Len(instructions)
    /\ Len(stack) <= MaxStack
    /\ LET ins == instructions[i + 1]
       IN  CASE ins.op = "Null" -> Commit(FALSE, stack, mem, output_buffer, i + 1)
             [] ins.op = "Push" ->
                  Commit(FALSE, Append(stack, ins.value), mem, output_buffer, i + 1)
             [] ins.op = "Pop" ->
                  Commit(FALSE, IF stack = <<>> THEN stack ELSE Front(stack),
                         mem, output_buffer, i + 1)
             [] ins.op = "Ret" ->
                  /\ pc' = "returned"
                  /\ UNCHANGED <<stack, mem, output_buffer, i>>
             [] ins.op = "Jiz" ->
                  Commit(FALSE, stack, mem, output_buffer,
                         execute_jiz(stack, instructions, i, ins.target))
             [] ins.op = "Jnz" ->
                  Commit(FALSE, stack, mem, output_buffer,
                         execute_jnz(stack, instructions, i, ins.target))
             [] ins.op = "AddS" ->
                  LET r == execute_adds(stack, i, ins.n)
                  IN  Commit(r.panic, r.stack, mem, output_buffer, r.i)
             [] ins.op = "Add" ->
                  LET r == execute_add(stack, i)
                  IN  Commit(r.panic, r.stack, mem, output_buffer, r.i)
             [] ins.op = "SubS" ->
                  LET r == execute_subs(stack, i, ins.n)
                  IN  Commit(r.panic, r.stack, mem, output_buffer, r.i)
             [] ins.op = "Sub" ->
                  LET r == execute_sub(stack, i)
                  IN  Commit(r.panic, r.stack, mem, output_buffer, r.i)
             [] ins.op = "Dup" ->
                  LET r == execute_dup(stack, i)
                  IN  Commit(r.panic, r.stack, mem, output_buffer, r.i)
             [] ins.op = "Swap" ->
                  LET r == execute_swap(stack, i)
                  IN  Commit(r.panic, r.stack, mem, output_buffer, r.i)
             [] ins.op = "DivS" ->
                  LET r == execute_divs(stack, i, ins.n)
                  IN  Commit(r.panic, r.stack, mem, output_buffer, r.i)
             [] ins.op = "Div" ->
                  LET r == execute_div(stack, i)
                  IN  Commit(r.panic, r.stack, mem, output_buffer, r.i)
             [] ins.op = "MultS" ->
                  LET r == execute_mults(stack, i, ins.n)
                  IN  Commit(r.panic, r.stack, mem, output_buffer, r.i)
             [] ins.op = "Mult" ->
                  LET r == execute_mult(stack, i)
                  IN  Commit(r.panic, r.stack, mem, output_buffer, r.i)
             [] ins.op = "MemWrite" ->
                  LET r == execute_memwrite(mem, i, ins.addr, ins.values)
                  IN  Commit(r.panic, stack, r.mem, output_buffer, r.i)
             [] ins.op = "Print" ->
                  LET r == execute_print(output_buffer, mem, i, ins.addr, ins.len)
                  IN  Commit(r.panic, stack, mem, r.out, r.i)
             [] ins.op = "MemRead" ->
                  LET r == execute_memread(stack, mem, i, ins.addr)
                  IN  Commit(r.panic, r.stack, mem, output_buffer, r.i)
             [] ins.op = "MemWriteS" ->
                  LET r == execute_memwrites(stack, mem, i, ins.addr, ins.len)
                  IN  Commit(r.panic, r.stack, r.mem, output_buffer, r.i)
    /\ UNCHANGED <<overflow_checks, instructions, runs>>
    /\ UNCHANGED <<codecvars, asmvars, clivars>>

\* while i < instructions.len() is false: (stack, mem) is returned
LoopExit ==
    /\ pc = "running"
    /\ i >= Len(instructions)
    /\ pc' = "returned"
    /\ UNCHANGED <<overflow_checks, instructions, stack, mem, output_buffer, i, runs>>
    /\ UNCHANGED <<codecvars, asmvars, clivars>>

\* the bytes the call under way has appended to the writer it was given
Appended ==
    SubSeq(output_buffer, 1 + (IF runs = <<>> THEN 0 ELSE runs[Len(runs)].written),
           Len(output_buffer))

\* what the call under way returns: (stack, mem), and what it wrote
Returned ==
    [instructions |-> instructions, stack |-> stack, mem |-> mem,
     appended |-> Appended, written |-> Len(output_buffer)]

\* execute that goes on with the stack and the memory of the call before
ExecuteAgain_keeps_state ==
    /\ pc = "returned"
    /\ Len(runs) < MaxRuns
    /\ runs' = Append(runs, Returned)
    /\ \E prog \in RunPrograms : instructions' = prog
    /\ i' = 0
    /\ pc' = "running"
    /\ UNCHANGED <<overflow_checks, stack, mem, output_buffer>>
    /\ UNCHANGED <<codecvars, asmvars, clivars>>

\* one more call of execute by the same process, with the same writer:
\* let mut stack = Vec::new(); let mut mem = vec![0; 2048]; let mut i = 0;
ExecuteAgain ==
    /\ pc = "returned"
    /\ Len(runs) < MaxRuns
    /\ runs' = Append(runs, Returned)
    /\ \E prog \in RunPrograms : instructions' = prog
    /\ stack' = <<>>
    /\ mem' = [k \in 0..(MemSize - 1) |-> 0]
    /\ i' = 0
    /\ pc' = "running"
    /\ UNCHANGED <<overflow_checks, output_buffer>>
    /\ UNCHANGED <<codecvars, asmvars, clivars>>

\* no source text is being assembled
AsmIdle ==
    /\ source = <<>>
    /\ labels = <<>>
    /\ result = <<>>
    /\ apc = "idle"

\* the library is not used through the command line
CliIdle ==
    /\ args = <<>>
    /\ files = <<>>
    /\ cli = "idle"

\* no execution is under way: execute owns its stack and memory
VmIdle ==
    /\ overflow_checks = FALSE
    /\ instructions = <<>>
    /\ stack = <<>>
    /\ mem = <<>>
    /\ output_buffer = <<>>
    /\ i = 0
    /\ pc = "idle"
    /\ runs = <<>>

----------------------------------------------------------------------------
(* The codec: a Program is serialized, the bytes are stored and read back, *)
(* and what is read is deserialized.                                       *)

CodecIdle ==
    /\ program = <<>>
    /\ bytecode = <<>>
    /\ decoded = [ok |-> FALSE, err |-> ""]
    /\ cpc = "idle"

\* serialize_instructions(&instructions) is about to be called
Codec(prog) ==
    /\ program = prog
    /\ bytecode = <<>>
    /\ decoded = [ok |-> FALSE, err |-> ""]
    /\ cpc = "start"

\* serialize_instructions: fs::write(output_path, bytecode)
Serialize ==
    /\ cpc = "start"
    /\ bytecode' = serialize_instructions(program)
    /\ cpc' = "encoded"
    /\ UNCHANGED <<program, decoded>>
    /\ UNCHANGED <<vmvars, asmvars, clivars>>

\* fs::read(file_path) of a file that holds only the first n bytes
ReadTruncated ==
    /\ cpc = "encoded"
    /\ \E n \in 0..(Len(bytecode) - 1) : bytecode' = SubSeq(bytecode, 1, n)
    /\ cpc' = "damaged"
    /\ UNCHANGED <<program, decoded>>
    /\ UNCHANGED <<vmvars, asmvars, clivars>>

\* the bytes that may follow the ones written: an unknown tag (255, 20), alone
\* or before a Push; a Jiz or Jnz tag with no string, with an unterminated
\* one, with a string that is not UTF-8; one more Null
TrailingBytes ==
    {<<255>>, <<20>>, <<255, 1, 0, 0, 0, 0>>, <<6>>, <<6, 51>>, <<7, 51, 51>>,
     <<6, 255, 0>>, <<0>>}

\* fs::read(file_path) of a file that holds more bytes than were written
ReadTrailing ==
    /\ cpc = "encoded"
    /\ \E tail \in TrailingBytes : bytecode' = bytecode \o tail
    /\ cpc' = "damaged"
    /\ UNCHANGED <<program, decoded>>
    /\ UNCHANGED <<vmvars, asmvars, clivars>>

\* deserialize_instructions(&bytecode)
Deserialize ==
    /\ cpc \in {"encoded", "damaged"}
    /\ decoded' = deserialize_instructions(bytecode)
    /\ cpc' = "decoded"
    /\ UNCHANGED <<program, bytecode>>
    /\ UNCHANGED <<vmvars, asmvars, clivars>>

\* one instruction of every kind, with operands of both signs, targets of one
\* and two digits, and MemWrite with no value and with two
CodecAlphabet ==
    {Null, Push(MinI32), Dup, Swap, Pop, Ret, Jiz(<<51>>), Jnz(<<49, 50>>),
     AddS(1), Add, SubS(-1), Sub, MultS(MaxI32), Mult, DivS(256), Div,
     MemWrite(0, <<>>), MemWrite(-1, <<72, -2>>), MemWriteS(1, 2), MemRead(2047),
     PrintI(0, 5)}

CodecPrograms == UNION {[1..n -> CodecAlphabet] : n \in 0..MaxCodecLen}

InitCodec ==
    /\ CliIdle
    /\ VmIdle
    /\ AsmIdle
    /\ \E prog \in CodecPrograms : Codec(prog)

NextCodec == Serialize \/ ReadTruncated \/ ReadTrailing \/ Deserialize

SpecCodec == InitCodec /\ [][NextCodec]_vars

----------------------------------------------------------------------------
(* The assembler: split_instructions, one action per pass. *)

\* let mut result = Vec::new(); let mut labels = HashMap::new();
SplitInstructions(lines) ==
    /\ source = lines
    /\ labels = <<>>
    /\ result = <<>>
    /\ apc = "start"

\* Phase 1: Collect all labels and map them to instruction indices
CollectLabels ==
    /\ apc = "start"
    /\ labels' = collect_labels(source)
    /\ apc' = "collected"
    /\ UNCHANGED <<source, result>>
    /\ UNCHANGED <<vmvars, codecvars, clivars>>

\* Phase 2: Parse instructions
ParseInstructions ==
    /\ apc = "collected"
    /\ result' = parse_instructions(source)
    /\ apc' = "parsed"
    /\ UNCHANGED <<source, labels>>
    /\ UNCHANGED <<vmvars, codecvars, clivars>>

\* Phase 3: Replace label references with actual instruction indices
ResolveLabelReferences ==
    /\ apc = "parsed"
    /\ result' = resolve_label_references(result, labels)
    /\ apc' = "resolved"
    /\ UNCHANGED <<source, labels>>
    /\ UNCHANGED <<vmvars, codecvars, clivars>>

\* the lines of the label sources
LabelLines ==
    {<<109, 97, 105, 110, 58>>,  \* "main:"
     <<101, 110, 100, 58>>,  \* "end:"
     <<80, 85, 83, 72, 32, 49>>,  \* "PUSH 1"
     <<74, 78, 90, 32, 109, 97, 105, 110>>,  \* "JNZ main"
     <<74, 73, 90, 32, 101, 110, 100>>,  \* "JIZ end"
     <<82, 69, 84>>,  \* "RET"
     <<66, 79, 71, 85, 83>>,  \* "BOGUS"
     <<>>}  \* ""

Sources(Lines) == UNION {[1..n -> Lines] : n \in 0..MaxLines}

InitAsm ==
    /\ CliIdle
    /\ VmIdle
    /\ CodecIdle
    /\ \E lines \in Sources(LabelLines) : SplitInstructions(lines)

NextAsm == CollectLabels \/ ParseInstructions \/ ResolveLabelReferences

SpecAsm == InitAsm /\ [][NextAsm]_vars

\* lines of every mnemonic with the instruction they are written for ("ok"),
\* lines of an unrecognized mnemonic ("unknown"), lines with an operand that is
\* not of the mnemonic's type ("type") and lines with a number of operands that
\* is not the mnemonic's ("count")
ParseLines ==
    {[text |-> <<78, 85, 76, 76>>, kind |-> "ok", instruction |-> Null],  \* NULL
     [text |-> <<80, 85, 83, 72, 32, 53>>, kind |-> "ok", instruction |-> Push(5)],  \* PUSH 5
     [text |-> <<112, 117, 115, 104, 32, 45, 51>>, kind |-> "ok", instruction |-> Push(-3)],  \* push -3
     [text |-> <<80, 79, 80>>, kind |-> "ok", instruction |-> Pop],  \* POP
     [text |-> <<68, 85, 80>>, kind |-> "ok", instruction |-> Dup],  \* DUP
     [text |-> <<83, 87, 65, 80>>, kind |-> "ok", instruction |-> Swap],  \* SWAP
     [text |-> <<82, 69, 84>>, kind |-> "ok", instruction |-> Ret],  \* RET
     [text |-> <<74, 73, 90, 32, 55>>, kind |-> "ok", instruction |-> Jiz(<<55>>)],  \* JIZ 7
     [text |-> <<74, 78, 90, 32, 108, 111, 111, 112>>, kind |-> "ok", instruction |-> Jnz(<<108, 111, 111, 112>>)],  \* JNZ loop
     [text |-> <<65, 68, 68>>, kind |-> "ok", instruction |-> Add],  \* ADD
     [text |-> <<65, 68, 68, 83, 32, 50>>, kind |-> "ok", instruction |-> AddS(2)],  \* ADDS 2
     [text |-> <<83, 85, 66>>, kind |-> "ok", instruction |-> Sub],  \* SUB
     [text |-> <<83, 85, 66, 83, 32, 50>>, kind |-> "ok", instruction |-> SubS(2)],  \* SUBS 2
     [text |-> <<77, 85, 76, 84>>, kind |-> "ok", instruction |-> Mult],  \* MULT
     [text |-> <<77, 85, 76, 84, 83, 32, 50>>, kind |-> "ok", instruction |-> MultS(2)],  \* MULTS 2
     [text |-> <<68, 73, 86>>, kind |-> "ok", instruction |-> Div],  \* DIV
     [text |-> <<68, 73, 86, 83, 32, 50>>, kind |-> "ok", instruction |-> DivS(2)],  \* DIVS 2
     [text |-> <<77, 69, 77, 87, 82, 73, 84, 69, 32, 48, 32, 55, 50, 32, 49, 48, 49>>, kind |-> "ok", instruction |-> MemWrite(0, <<72, 101>>)],  \* MEMWRITE 0 72 101
     [text |-> <<77, 69, 77, 87, 82, 73, 84, 69, 32, 53>>, kind |-> "ok", instruction |-> MemWrite(5, <<>>)],  \* MEMWRITE 5
     [text |-> <<77, 69, 77, 87, 82, 73, 84, 69, 32, 48, 32, 55, 50, 32, 120, 32, 45, 49, 32, 50, 49, 52, 55, 52, 56, 51, 54, 52, 56>>, kind |-> "ok", instruction |-> MemWrite(0, <<72, -1>>)],  \* MEMWRITE 0 72 x -1 2147483648
     [text |-> <<77, 69, 77, 87, 82, 73, 84, 69, 83, 32, 48, 32, 52>>, kind |-> "ok", instruction |-> MemWriteS(0, 4)],  \* MEMWRITES 0 4
     [text |-> <<77, 69, 77, 82, 69, 65, 68, 32, 51>>, kind |-> "ok", instruction |-> MemRead(3)],  \* MEMREAD 3
     [text |-> <<80, 82, 73, 78, 84, 32, 48, 32, 53>>, kind |-> "ok", instruction |-> PrintI(0, 5)],  \* PRINT 0 5
     [text |-> <<66, 79, 71, 85, 83>>, kind |-> "unknown"],  \* BOGUS
     [text |-> <<80, 85, 83, 72, 88, 32, 49>>, kind |-> "unknown"],  \* PUSHX 1
     [text |-> <<80, 85, 83, 72, 32, 120>>, kind |-> "type"],  \* PUSH x
     [text |-> <<80, 85, 83, 72, 32, 50, 49, 52, 55, 52, 56, 51, 54, 52, 56>>, kind |-> "type"],  \* PUSH 2147483648
     [text |-> <<65, 68, 68, 83, 32, 49, 46, 53>>, kind |-> "type"],  \* ADDS 1.5
     [text |-> <<77, 69, 77, 82, 69, 65, 68, 32, 120>>, kind |-> "type"],  \* MEMREAD x
     [text |-> <<77, 69, 77, 87, 82, 73, 84, 69, 83, 32, 48, 32, 120>>, kind |-> "type"],  \* MEMWRITES 0 x
     [text |-> <<80, 82, 73, 78, 84, 32, 97, 32, 53>>, kind |-> "type"],  \* PRINT a 5
     [text |-> <<77, 69, 77, 87, 82, 73, 84, 69, 32, 120, 32, 49>>, kind |-> "type"],  \* MEMWRITE x 1
     [text |-> <<80, 85, 83, 72>>, kind |-> "count"],  \* PUSH
     [text |-> <<80, 85, 83, 72, 32, 49, 32, 50>>, kind |-> "count"],  \* PUSH 1 2
     [text |-> <<74, 73, 90>>, kind |-> "count"],  \* JIZ
     [text |-> <<74, 78, 90, 32, 97, 32, 98>>, kind |-> "count"],  \* JNZ a b
     [text |-> <<65, 68, 68, 83>>, kind |-> "count"],  \* ADDS
     [text |-> <<83, 85, 66, 83, 32, 49, 32, 50>>, kind |-> "count"],  \* SUBS 1 2
     [text |-> <<77, 85, 76, 84, 83>>, kind |-> "count"],  \* MULTS
     [text |-> <<68, 73, 86, 83, 32, 49, 32, 50>>, kind |-> "count"],  \* DIVS 1 2
     [text |-> <<77, 69, 77, 82, 69, 65, 68>>, kind |-> "count"],  \* MEMREAD
     [text |-> <<77, 69, 77, 87, 82, 73, 84, 69, 83, 32, 48>>, kind |-> "count"],  \* MEMWRITES 0
     [text |-> <<80, 82, 73, 78, 84, 32, 48>>, kind |-> "count"],  \* PRINT 0
     [text |-> <<80, 82, 73, 78, 84, 32, 48, 32, 53, 32, 54>>, kind |-> "count"],  \* PRINT 0 5 6
     [text |-> <<77, 69, 77, 87, 82, 73, 84, 69>>, kind |-> "count"],  \* MEMWRITE
     [text |-> <<78, 85, 76, 76, 32, 48>>, kind |-> "count"],  \* NULL 0
     [text |-> <<80, 79, 80, 32, 53>>, kind |-> "count"],  \* POP 5
     [text |-> <<68, 85, 80, 32, 49>>, kind |-> "count"],  \* DUP 1
     [text |-> <<83, 87, 65, 80, 32, 49>>, kind |-> "count"],  \* SWAP 1
     [text |-> <<82, 69, 84, 32, 120>>, kind |-> "count"],  \* RET x
     [text |-> <<65, 68, 68, 32, 49, 32, 50>>, kind |-> "count"],  \* ADD 1 2
     [text |-> <<83, 85, 66, 32, 49>>, kind |-> "count"],  \* SUB 1
     [text |-> <<77, 85, 76, 84, 32, 49>>, kind |-> "count"],  \* MULT 1
     [text |-> <<68, 73, 86, 32, 49>>, kind |-> "count"]}  \* DIV 1

\* one of ParseLines between up to MaxContext lines before it and after it
InitParse ==
    /\ CliIdle
    /\ VmIdle
    /\ CodecIdle
    /\ \E subject \in ParseLines, n \in 0..MaxContext, m \in 0..MaxContext :
          \E before \in [1..n -> {<<80, 85, 83, 72, 32, 53>>, <<66, 79, 71, 85, 83>>}],
             after \in [1..m -> {<<82, 69, 84>>, <<80, 85, 83, 72, 32, 120>>}] :
             SplitInstructions(before \o <<subject.text>> \o after)

SpecParse == InitParse /\ [][NextAsm]_vars

\* two labels that differ in case, jumps to them, mnemonics in both cases, a
\* comment line, a line that ends with a comment and the blank line
CommentLines ==
    {<<109, 97, 105, 110, 58>>,  \* "main:"
     <<77, 97, 105, 110, 58>>,  \* "Main:"
     <<74, 78, 90, 32, 109, 97, 105, 110>>,  \* "JNZ main"
     <<106, 105, 122, 32, 77, 97, 105, 110>>,  \* "jiz Main"
     <<112, 117, 115, 104, 32, 49>>,  \* "push 1"
     <<59, 32, 110, 111, 116, 101>>,  \* "; note"
     <<80, 85, 83, 72, 32, 49, 32, 59, 32, 110, 111, 116, 101>>,  \* "PUSH 1 ; note"
     <<>>}  \* ""

InitComments ==
    /\ CliIdle
    /\ VmIdle
    /\ CodecIdle
    /\ \E n \in 0..MaxCommentLines :
          \E lines \in [1..n -> CommentLines] : SplitInstructions(lines)

SpecComments == InitComments /\ [][NextAsm]_vars

\* a label, jumps to it, to an address, to an unknown name and to a name that
\* holds a zero byte, a MEMWRITE with no value and a PUSH
PipelineLines ==
    {<<109, 97, 105, 110, 58>>,  \* "main:"
     <<74, 78, 90, 32, 109, 97, 105, 110>>,  \* "JNZ main"
     <<74, 73, 90, 32, 55>>,  \* "JIZ 7"
     <<74, 73, 90, 32, 102, 111, 111>>,  \* "JIZ foo"
     <<74, 78, 90, 32, 97, 0, 98>>,  \* "JNZ a\0b"
     <<77, 69, 77, 87, 82, 73, 84, 69, 32, 48>>,  \* "MEMWRITE 0"
     <<80, 85, 83, 72, 32, 49>>}  \* "PUSH 1"

InitPipeline ==
    /\ CliIdle
    /\ VmIdle
    /\ CodecIdle
    /\ \E lines \in Sources(PipelineLines) : SplitInstructions(lines)

\* assemble_source: split_instructions has returned; serialize_instructions
AssembleSource ==
    /\ apc = "resolved"
    /\ cpc = "idle"
    /\ program' = result
    /\ bytecode' = serialize_instructions(result)
    /\ cpc' = "encoded"
    /\ UNCHANGED decoded
    /\ UNCHANGED <<vmvars, asmvars, clivars>>

NextPipeline ==
    CollectLabels \/ ParseInstructions \/ ResolveLabelReferences \/ AssembleSource \/ Deserialize

SpecPipeline == InitPipeline /\ [][NextPipeline]_vars

----------------------------------------------------------------------------
(* execute: the Programs it is started with. *)

\* the Programs that push up to MaxPushes of Values, execute one instruction
\* of Body and go on with one of Tails
PushSeqs(Values) == UNION {[1..n -> {Push(v) : v \in Values}] : n \in 0..MaxPushes}

TestPrograms(Values, Body, Tails) ==
    {pushes \o <<ins>> \o tail : pushes \in PushSeqs(Values), ins \in Body, tail \in Tails}

\* the operands of the arithmetic Programs
ArithValues == {MinI32, -1, 0, 7}

ArithImmediates == {-1, 0, 3}

ArithBody ==
    {Add, Sub, Mult, Div}
    \cup {AddS(n) : n \in ArithImmediates} \cup {SubS(n) : n \in ArithImmediates}
    \cup {MultS(n) : n \in ArithImmediates} \cup {DivS(n) : n \in ArithImmediates}

Init ==
    /\ CliIdle
    /\ overflow_checks \in BOOLEAN
    /\ \E prog \in TestPrograms(ArithValues, ArithBody, {<<>>}) : Execute(prog, <<>>)
    /\ CodecIdle
    /\ AsmIdle

\* the operands of the jump Programs: "3", "5" (the length of some of the
\* Programs), "9" (past the end of all of them), "+3", "x" and "-1"
JumpTargets == {<<51>>, <<53>>, <<57>>, <<43, 51>>, <<120>>, <<45, 49>>}

JumpBody == {Jiz(t) : t \in JumpTargets} \cup {Jnz(t) : t \in JumpTargets}

InitJump ==
    /\ CliIdle
    /\ overflow_checks \in BOOLEAN
    /\ \E prog \in TestPrograms({0, 1}, JumpBody, {<<>>, <<Push(99), Ret>>}) :
          Execute(prog, <<>>)
    /\ CodecIdle
    /\ AsmIdle

Next == Step \/ LoopExit

Spec == Init /\ [][Next]_vars

SpecJump == InitJump /\ [][Next]_vars

\* the instructions that need one or two values on the stack
StackBody == {Pop, Dup, Swap, Add, Sub, Mult, Div}

InitStack ==
    /\ CliIdle
    /\ overflow_checks \in BOOLEAN
    /\ \E prog \in TestPrograms({0, 7}, StackBody, {<<>>, <<Push(5), Swap>>}) :
          Execute(prog, <<>>)
    /\ CodecIdle
    /\ AsmIdle

SpecStack == InitStack /\ [][Next]_vars

\* execute runs on: the loop is not suspended
SpecStackFair == SpecStack /\ WF_vars(Next)

\* MemWriteS at both ends of the memory, before it and after it, of lengths
\* from -1 to MaxPushes
MemWriteSBody == {MemWriteS(a, l) : a \in {-1, 0, MemSize - 2, MemSize}, l \in -1..MaxPushes}

InitMemWriteS ==
    /\ CliIdle
    /\ overflow_checks \in BOOLEAN
    /\ \E prog \in TestPrograms({7, 9}, MemWriteSBody,
                                {<<>>, <<MemRead(0)>>, <<MemRead(1)>>, <<MemRead(MemSize - 1)>>}) :
          Execute(prog, <<>>)
    /\ CodecIdle
    /\ AsmIdle

SpecMemWriteS == InitMemWriteS /\ [][Next]_vars

\* MemWrite of no value, of byte values, of a value above 255 and of a negative
\* one, before the memory, at both ends of it and after it
MemWriteBody ==
    {MemWrite(a, vs) : a \in {-2, -1, 0, MemSize - 2, MemSize - 1, MemSize},
                       vs \in {<<>>, <<72>>, <<72, -56>>, <<328, 72, -56>>}}

\* what follows the MemWrite: nothing, a MemRead or a Print
MemoryTails ==
    {<<>>}
    \cup {<<MemRead(a)>> : a \in {-1, 0, 1, MemSize - 1, MemSize}}
    \cup {<<PrintI(a, l)>> : a \in {-1, 0, MemSize - 2, MemSize}, l \in -1..3}

InitMemory ==
    /\ CliIdle
    /\ overflow_checks \in BOOLEAN
    /\ \E ins \in MemWriteBody, tail \in MemoryTails : Execute(<<ins>> \o tail, <<>>)
    /\ CodecIdle
    /\ AsmIdle

SpecMemory == InitMemory /\ [][Next]_vars

\* the instructions that leave the stack or the memory alone, with valid and
\* invalid operands, among instructions that change them
FrameAlphabet ==
    {Null, Push(7), Push(0), Pop, Dup, Ret, Jiz(<<48>>), Jnz(<<57>>), Add, AddS(1),
     MemWrite(0, <<72>>), MemWriteS(1, 1), MemRead(0),
     PrintI(0, 1), PrintI(-1, 3), PrintI(MemSize - 1, 2), PrintI(2, -1)}

InitFrame ==
    /\ CliIdle
    /\ overflow_checks \in BOOLEAN
    /\ \E n \in 1..MaxFrameLen : \E prog \in [1..n -> FrameAlphabet] : Execute(prog, <<>>)
    /\ CodecIdle
    /\ AsmIdle

SpecFrame == InitFrame /\ [][Next]_vars

\* test_loop_program, from every n up to MaxCount
InitLoop ==
    /\ CliIdle
    /\ overflow_checks \in BOOLEAN
    /\ \E n \in 1..MaxCount : Execute(<<Push(n), SubS(1), Jnz(<<49>>), Ret>>, <<>>)
    /\ CodecIdle
    /\ AsmIdle

\* the loop of execute runs on until the Ret
SpecLoop == InitLoop /\ [][Step]_vars /\ WF_vars(Step)

InitRuns ==
    /\ CliIdle
    /\ overflow_checks \in BOOLEAN
    /\ \E prog \in RunPrograms : Execute(prog, <<>>)
    /\ CodecIdle
    /\ AsmIdle

NextRuns == Step \/ LoopExit \/ ExecuteAgain

SpecRuns == InitRuns /\ [][NextRuns]_vars

----------------------------------------------------------------------------
(* The command line: main, run_file and assemble_file_to_path. *)

\* str::ends_with
ends_with(s, suffix) ==
    Len(s) >= Len(suffix) /\ SubSeq(s, Len(s) - Len(suffix) + 1, Len(s)) = suffix

\* str::replace: every occurrence of from, left to right
RECURSIVE replace(_, _, _)
replace(s, from, to) ==
    IF Len(s) < Len(from) THEN s
    ELSE IF SubSeq(s, 1, Len(from)) = from
    THEN to \o replace(SubSeq(s, Len(from) + 1, Len(s)), from, to)
    ELSE <<Head(s)>> \o replace(Tail(s), from, to)

\* str::lines: the text between line feeds, without the carriage return that
\* ends a line; no line for what follows the last line feed when it is empty
RECURSIVE lines_of(_)
lines_of(text) ==
    IF text = <<>> THEN <<>>
    ELSE LET n == find(text, 10)
             line == SubSeq(text, 1, n)
             stripped == IF line # <<>> /\ Last(line) = 13 THEN Front(line) ELSE line
         IN  <<stripped>> \o lines_of(SubSeq(text, n + 2, Len(text)))

\* Assembles assembly source code into bytecode format
assemble_source(text) == serialize_instructions(split_instructions(lines_of(text)))

\* Assembles a .asv file to a .vvm file: [ok, files]
assemble_file(fs, input_path, output_path) ==
    IF input_path \notin DOMAIN fs \/ ~Utf8Valid(fs[input_path])
    THEN [ok |-> FALSE, files |-> fs]
    ELSE [ok |-> TRUE, files |-> Insert(fs, output_path, assemble_source(fs[input_path]))]

\* Loads instructions from a .vvm bytecode file
load_bytecode_file(fs, file_path) ==
    IF file_path \notin DOMAIN fs
    THEN [ok |-> FALSE, err |-> "Failed to read bytecode file"]
    ELSE deserialize_instructions(fs[file_path])

\* fs::remove_file
remove_file(fs, path) == [f \in DOMAIN fs \ {path} |-> fs[f]]

\* fn main: match command.as_str()
Main ==
    /\ cli = "start"
    /\ cli' = IF Len(args) = 1 THEN "usage"
              \* "run" | "--run" | "-r"
              ELSE IF args[2] \in {<<114, 117, 110>>, <<45, 45, 114, 117, 110>>, <<45, 114>>}
              THEN (IF Len(args) < 3 THEN "exit" ELSE "run_file")
              \* "assemble" | "--assemble" | "-a"
              ELSE IF args[2] \in {<<97, 115, 115, 101, 109, 98, 108, 101>>,
                                   <<45, 45, 97, 115, 115, 101, 109, 98, 108, 101>>, <<45, 97>>}
              THEN (IF Len(args) < 4 THEN "exit"
                    \* !input_file.ends_with(".vvm")
                    ELSE IF ~ends_with(args[3], <<46, 118, 118, 109>>) THEN "exit"
                    \* !output_file.ends_with(".asv")
                    ELSE IF ~ends_with(args[4], <<46, 97, 115, 118>>) THEN "exit"
                    ELSE "assemble_file_to_path")
              \* "help" | "--help" | "-h"
              ELSE IF args[2] \in {<<104, 101, 108, 112>>, <<45, 45, 104, 101, 108, 112>>, <<45, 104>>}
              THEN "usage"
              \* "--version" | "-v"
              ELSE IF args[2] \in {<<45, 45, 118, 101, 114, 115, 105, 111, 110>>, <<45, 118>>} THEN "version"
              ELSE "exit"
    /\ UNCHANGED <<args, files>>
    /\ UNCHANGED <<vmvars, codecvars, asmvars>>

\* let mut output_buffer = Vec::new(); execute(&instructions, &mut output_buffer)
Run(prog) ==
    /\ instructions' = prog
    /\ stack' = <<>>
    /\ mem' = [k \in 0..(MemSize - 1) |-> 0]
    /\ output_buffer' = <<>>
    /\ i' = 0
    /\ pc' = "running"
    /\ cli' = "execute"
    /\ UNCHANGED <<overflow_checks, runs>>

\* fn run_file(filename), up to the call of execute
RunFile ==
    /\ cli = "run_file"
    /\ LET filename == args[3]
           is_vvm == ends_with(filename, <<46, 118, 118, 109>>)  \* ".vvm"
           is_asv == ends_with(filename, <<46, 97, 115, 118>>)  \* ".asv"
           \* filename.replace(".vvm", "_temp.asv")
           temp_filename == replace(filename, <<46, 118, 118, 109>>, <<95, 116, 101, 109, 112, 46, 97, 115, 118>>)
           assembled == assemble_file(files, filename, temp_filename)
           loaded == IF is_vvm
                     THEN load_bytecode_file(assembled.files, temp_filename)
                     ELSE load_bytecode_file(files, filename)
       IN  /\ files' = IF is_vvm /\ assembled.ok
                       THEN remove_file(assembled.files, temp_filename)
                       ELSE files
           /\ IF (is_vvm /\ assembled.ok /\ loaded.ok) \/ (~is_vvm /\ is_asv /\ loaded.ok)
              THEN Run(loaded.instructions)
              ELSE cli' = "exit" /\ UNCHANGED vmvars
    /\ UNCHANGED args
    /\ UNCHANGED <<codecvars, asmvars>>

\* fn run_file, after execute: println!("Final stack: {:?}", stack)
FinalStack ==
    /\ cli = "execute"
    /\ pc = "returned"
    /\ cli' = "done"
    /\ UNCHANGED <<args, files>>
    /\ UNCHANGED <<vmvars, codecvars, asmvars>>

\* fn assemble_file_to_path(input_file, output_file)
AssembleFileToPath ==
    /\ cli = "assemble_file_to_path"
    /\ LET assembled == assemble_file(files, args[3], args[4])
       IN  /\ files' = assembled.files
           /\ cli' = IF assembled.ok THEN "done" ELSE "exit"
    /\ UNCHANGED args
    /\ UNCHANGED <<vmvars, codecvars, asmvars>>

\* the commands given: one of each arm of main, and one it does not know
Commands ==
    {<<114, 117, 110>>,  \* "run"
     <<97, 115, 115, 101, 109, 98, 108, 101>>,  \* "assemble"
     <<45, 97>>,  \* "-a"
     <<104, 101, 108, 112>>,  \* "help"
     <<45, 45, 118, 101, 114, 115, 105, 111, 110>>,  \* "--version"
     <<98, 111, 103, 117, 115>>}  \* "bogus"

\* the file names given: one of each extension and one of another
FileNames ==
    {<<112, 46, 97, 115, 118>>,  \* "p.asv"
     <<112, 46, 118, 118, 109>>,  \* "p.vvm"
     <<112, 46, 116, 120, 116>>}  \* "p.txt"

\* what a file holds: the source text "PUSH 7\nPUSH 1\nADD\n", the bytecode
\* of [Push(7), Push(1), Add], or nothing
FileContents ==
    {<<80, 85, 83, 72, 32, 55, 10, 80, 85, 83, 72, 32, 49, 10, 65, 68, 68, 10>>,
     serialize_instructions(<<Push(7), Push(1), Add>>),
     <<>>}

InitCli ==
    /\ overflow_checks \in BOOLEAN
    /\ instructions = <<>> /\ stack = <<>> /\ mem = <<>> /\ output_buffer = <<>>
    /\ i = 0 /\ pc = "idle" /\ runs = <<>>
    /\ CodecIdle
    /\ AsmIdle
    /\ \E n \in 0..3 : \E given \in [1..n -> Commands \cup FileNames] :
          /\ n >= 1 => given[1] \in Commands
          /\ \A k \in 2..n : given[k] \in FileNames
          /\ args = <<<<118, 111, 114, 116, 101, 120, 45, 118, 109>>>> \o given  \* "vortex-vm"
    /\ \E present \in SUBSET FileNames : files \in [present -> FileContents]
    /\ cli = "start"

NextCli == Main \/ RunFile \/ AssembleFileToPath \/ Step \/ LoopExit \/ FinalStack

SpecCli == InitCli /\ [][NextCli]_vars

----------------------------------------------------------------------------
(* The execution engine: the claims. *)

\* the instruction the next turn of the loop executes
Fetching == pc = "running" /\ i < Len(instructions) /\ Len(stack) <= MaxStack

Current == instructions[i + 1]

\* a jump whose condition on the top of the stack holds
JumpConditionHolds ==
    /\ Current.op \in {"Jiz", "Jnz"}
    /\ stack # <<>>
    /\ (Current.op = "Jiz") = (Last(stack) = 0)

\* the target of the jump is the text of an address of the Program
JumpTargetValid ==
    /\ parse_usize(Current.target).ok
    /\ parse_usize(Current.target).val < Len(instructions)

\* C3: a Jiz or Jnz whose condition holds and whose target is unparsable or
\* not less than the program length halts the execution: no instruction is
\* processed after it, and the stack, memory and output are left as they are.
C3_InvalidJumpIsFatal ==
    [][(Fetching /\ JumpConditionHolds /\ ~JumpTargetValid)
         => /\ pc' = "returned" \/ i' >= Len(instructions)
            /\ UNCHANGED <<stack, mem, output_buffer>>]_vars

C5_NeverPanics == pc # "panicked"

\* the two operands of a binary instruction: a on top, b below it
TopA == stack[Len(stack)]

TopB == stack[Len(stack) - 1]

Below(n) == SubSeq(stack, 1, Len(stack) - n)

\* C7: with two or more values on the stack, Add, Sub, Mult and Div (top not
\* 0) replace a (top) and b (second) by b + a, b - a, b * a and b / a: the
\* stack is one shorter and the values below the operands are unchanged.
C7_BinaryArithmetic ==
    [][(/\ Fetching
        /\ Current.op \in {"Add", "Sub", "Mult", "Div"}
        /\ Len(stack) >= 2
        /\ Current.op = "Div" => TopA # 0)
         => /\ pc' = "running"
            /\ Len(stack') = Len(stack) - 1
            /\ SubSeq(stack', 1, Len(stack') - 1) = Below(2)
            /\ CASE Current.op = "Add" ->
                      ~AddOverflows(TopB, TopA) /\ Last(stack') = TopB + TopA
                 [] Current.op = "Sub" ->
                      ~SubOverflows(TopB, TopA) /\ Last(stack') = TopB - TopA
                 [] Current.op = "Mult" ->
                      ~MulOverflows(TopB, TopA) /\ Last(stack') = TopB * TopA
                 [] Current.op = "Div" ->
                      /\ ~(TopB = MinI32 /\ TopA = -1)
                      /\ Last(stack') = TruncDiv(TopB, TopA)]_vars

\* C8: Div with two or more values on the stack and 0 on top removes both
\* operands and pushes nothing; the values below, the memory and the output
\* are unchanged and the execution goes on with the next instruction.
C8_DivByZero ==
    [][(Fetching /\ Current.op = "Div" /\ Len(stack) >= 2 /\ TopA = 0)
         => /\ pc' = "running"
            /\ i' = i + 1
            /\ stack' = Below(2)
            /\ UNCHANGED <<mem, output_buffer>>]_vars

\* C8, its case: [Push(v), Push(7), Push(0), Div] has executed the Div
C8_Witness ==
    /\ Len(instructions) = 4
    /\ instructions[2] = Push(7)
    /\ instructions[3] = Push(0)
    /\ instructions[4] = Div
    /\ pc = "running"
    /\ i = 4
    /\ stack = <<instructions[1].value>>

\* C9: DivS(0) changes nothing, whatever the stack: the stack, the memory
\* and the output are unchanged, the pointer advances by one, nothing faults.
C9_DivSZero ==
    [][(Fetching /\ Current = DivS(0))
         => /\ pc' = "running"
            /\ i' = i + 1
            /\ UNCHANGED <<stack, mem, output_buffer>>]_vars

\* C9, its case: [Push(7), DivS(0)] has executed the DivS(0)
C9_Witness ==
    /\ instructions = <<Push(7), DivS(0)>>
    /\ pc = "running"
    /\ i = 2
    /\ stack = <<7>>

\* C10: on a stack with top v, AddS(n), SubS(n), MultS(n) and DivS(n), n # 0,
\* replace the top by v + n, v - n, v * n and v / n (truncated toward zero);
\* the depth and the values below are unchanged; on an empty stack nothing
\* changes.
C10_ScaledArithmetic ==
    [][(/\ Fetching
        /\ Current.op \in {"AddS", "SubS", "MultS", "DivS"}
        /\ Current.op = "DivS" => Current.n # 0)
         => /\ pc' = "running"
            /\ i' = i + 1
            /\ UNCHANGED <<mem, output_buffer>>
            /\ IF stack = <<>>
               THEN stack' = stack
               ELSE /\ Len(stack') = Len(stack)
                    /\ SubSeq(stack', 1, Len(stack') - 1) = Below(1)
                    /\ CASE Current.op = "AddS" ->
                              /\ ~AddOverflows(TopA, Current.n)
                              /\ Last(stack') = TopA + Current.n
                         [] Current.op = "SubS" ->
                              /\ ~SubOverflows(TopA, Current.n)
                              /\ Last(stack') = TopA - Current.n
                         [] Current.op = "MultS" ->
                              /\ ~MulOverflows(TopA, Current.n)
                              /\ Last(stack') = TopA * Current.n
                         [] Current.op = "DivS" ->
                              /\ ~(TopA = MinI32 /\ Current.n = -1)
                              /\ Last(stack') = TruncDiv(TopA, Current.n)]_vars

----------------------------------------------------------------------------
(* The codec: the claims. *)

\* the bytes read are the bytes written
Undamaged == bytecode = serialize_instructions(program)

\* every jump target of the Program is a decimal string
DecimalTargets ==
    \A k \in 1..Len(program) :
        program[k].op \in {"Jiz", "Jnz"}
          => /\ program[k].target # <<>>
             /\ \A j \in 1..Len(program[k].target) : IsDigit(program[k].target[j])

\* C1: decoding the encoding of a Program whose jump targets are decimal
\* strings succeeds and yields the Program, for every instruction kind and
\* operand, a MemWrite with no values at any position included.
C1_RoundTrip ==
    (cpc = "decoded" /\ Undamaged /\ DecimalTargets)
      => (decoded.ok /\ decoded.instructions = program)

\* the lengths of the encodings of the prefixes of the Program: where an
\* instruction ends in the bytes written
Boundaries ==
    {Len(serialize_instructions(SubSeq(program, 1, k))) : k \in 0..Len(program)}

\* the bytes read stop inside an instruction of the Program
EndsMidInstruction ==
    /\ Len(bytecode) < Len(serialize_instructions(program))
    /\ bytecode = SubSeq(serialize_instructions(program), 1, Len(bytecode))
    /\ Len(bytecode) \notin Boundaries

\* the bytes that follow the encoding of the Program
Trailing ==
    SubSeq(bytecode, Len(serialize_instructions(program)) + 1, Len(bytecode))

HasTrailing ==
    /\ Len(bytecode) > Len(serialize_instructions(program))
    /\ SubSeq(bytecode, 1, Len(serialize_instructions(program)))
         = serialize_instructions(program)

\* the byte after the last instruction is no tag
UnknownTag == HasTrailing /\ Trailing[1] > 19

\* a Jiz or Jnz tag follows the last instruction, and no zero byte follows it
UnterminatedString ==
    /\ HasTrailing
    /\ Trailing[1] \in {6, 7}
    /\ \A k \in 2..Len(Trailing) : Trailing[k] # 0

\* C6: decoding fails, and returns no Program, when the bytes end inside an
\* instruction, when the first byte of an instruction is no tag of 0x00..0x13,
\* or when a Jiz/Jnz string has no zero terminator before the end.
C6_DecodeFails ==
    (cpc = "decoded" /\ (EndsMidInstruction \/ UnknownTag \/ UnterminatedString))
      => (~decoded.ok /\ "instructions" \notin DOMAIN decoded)

\* C6, its case: a MemWrite of two values was read with the second cut short
C6_Witness ==
    /\ cpc = "decoded"
    /\ EndsMidInstruction
    /\ program = <<Ret, MemWrite(-1, <<72, -2>>)>>
    /\ Len(bytecode) = 16
    /\ ~decoded.ok

----------------------------------------------------------------------------
(* The assembler: the claims. *)

CleanLine(k) == extract_code_portion(source[k])

\* line k defines a label
IsLabelLine(k) == CleanLine(k) # <<>> /\ is_label_definition(CleanLine(k))

\* line k is assembled into an instruction of the Program
YieldsInstruction(k) ==
    /\ CleanLine(k) # <<>>
    /\ ~is_label_definition(CleanLine(k))
    /\ parse_instruction_line(CleanLine(k)).some

\* the address, in the assembled Program, of the first instruction after line k
AddressAfter(k) == Cardinality({j \in 1..(k - 1) : YieldsInstruction(j)})

LabelName(k) == extract_label_name(CleanLine(k))

LabelNames == {LabelName(k) : k \in {j \in 1..Len(source) : IsLabelLine(j)}}

\* the last line that defines the label
LastDefinition(name) ==
    CHOOSE k \in 1..Len(source) :
        /\ IsLabelLine(k) /\ LabelName(k) = name
        /\ \A j \in (k + 1)..Len(source) : ~(IsLabelLine(j) /\ LabelName(j) = name)

\* C2: each label is bound to the address, in the assembled Program, of the
\* first instruction after the label line; labels occupy no address; every
\* Jiz/Jnz whose target names a defined label, before or after the jump, ends
\* with the decimal string of that address as its target.
C2_LabelResolution ==
    apc = "resolved"
      => /\ Len(result) = Cardinality({k \in 1..Len(source) : YieldsInstruction(k)})
         /\ \A name \in LabelNames : labels[name] = AddressAfter(LastDefinition(name))
         /\ \A k \in 1..Len(result) :
               LET ins == parse_instructions(source)[k]
               IN  (ins.op \in {"Jiz", "Jnz"} /\ ins.target \in LabelNames)
                     => result[k].target = to_string(AddressAfter(LastDefinition(ins.target)))

----------------------------------------------------------------------------
(* The execution engine: stack underflow and the memory instructions. *)

\* the instruction finds fewer values on the stack than it needs
Underflow ==
    \/ Current.op \in {"Pop", "Dup"} /\ stack = <<>>
    \/ Current.op \in {"Swap", "Add", "Sub", "Mult", "Div"} /\ Len(stack) < 2

\* C11: Pop and Dup on an empty stack, and Swap, Add, Sub, Mult and Div on a
\* stack of fewer than two values, leave the stack, the memory and the output
\* unchanged and advance the instruction pointer by one.
C11_UnderflowNoOp ==
    [][(Fetching /\ Underflow)
         => /\ pc' = "running"
            /\ i' = i + 1
            /\ UNCHANGED <<stack, mem, output_buffer>>]_vars

\* C11, its case: [Push(7), Swap] has executed the Swap on one value
C11_Witness ==
    /\ instructions = <<Push(7), Swap>>
    /\ pc = "running"
    /\ i = 2
    /\ stack = <<7>>

\* the range [addr, addr + len) of the instruction lies within the memory
RangeValid == Current.addr >= 0 /\ Current.len >= 0 /\ Current.addr <= MemSize - Current.len

\* C12: MemWriteS(addr, len) with a valid range and len or more values on the
\* stack removes the top len values and stores them at addr in push order,
\* deepest first; the other cells and the remaining stack are unchanged; a
\* MemRead(addr + k) that follows pushes the k-th of them.
C12_MemWriteSOrder ==
    /\ [][(Fetching /\ Current.op = "MemWriteS" /\ RangeValid /\ Len(stack) >= Current.len)
            => /\ pc' = "running"
               /\ i' = i + 1
               /\ stack' = Below(Current.len)
               /\ \A k \in 0..(MemSize - 1) :
                     mem'[k] = IF k >= Current.addr /\ k < Current.addr + Current.len
                               THEN stack[Len(stack) - Current.len + (k - Current.addr) + 1]
                               ELSE mem[k]
               /\ UNCHANGED output_buffer]_vars
    /\ [][(/\ Fetching /\ Current.op = "MemRead" /\ i >= 1
           /\ instructions[i].op = "MemWriteS"
           /\ \A j \in 1..(i - 1) : instructions[j].op = "Push"
           /\ instructions[i].addr >= 0 /\ instructions[i].len >= 0
           /\ instructions[i].addr <= MemSize - instructions[i].len
           /\ i - 1 >= instructions[i].len
           /\ Current.addr >= instructions[i].addr
           /\ Current.addr < instructions[i].addr + instructions[i].len)
            => /\ pc' = "running"
               /\ stack' = Append(stack,
                     instructions[i - instructions[i].len
                                    + (Current.addr - instructions[i].addr)].value)]_vars

\* C12, its case: [Push(7), Push(9), MemWriteS(0, 2), MemRead(1)] has run
C12_Witness ==
    /\ instructions = <<Push(7), Push(9), MemWriteS(0, 2), MemRead(1)>>
    /\ pc = "running"
    /\ i = 4
    /\ stack = <<9>>
    /\ mem[0] = 7
    /\ mem[1] = 9

\* C13: MemWriteS(addr, len) with a valid range and fewer than len values on
\* the stack is skipped: no value is popped, no cell is written, and the
\* execution goes on with the next instruction.
C13_MemWriteSUnderflow ==
    [][(Fetching /\ Current.op = "MemWriteS" /\ RangeValid /\ Len(stack) < Current.len)
         => /\ pc' = "running"
            /\ i' = i + 1
            /\ UNCHANGED <<stack, mem>>]_vars

\* C14: MemWriteS(addr, len) whose range is not within the memory (addr
\* negative, len negative or addr + len > 2048) is skipped: the stack and the
\* memory are unchanged and the execution goes on with the next instruction.
C14_MemWriteSBounds ==
    [][(Fetching /\ Current.op = "MemWriteS" /\ ~RangeValid)
         => /\ pc' = "running"
            /\ i' = i + 1
            /\ UNCHANGED <<stack, mem>>]_vars

\* C15: MemWrite(addr, values) with 0 <= addr < 2048 stores values[j] in
\* memory[addr + j] for the j with addr + j < 2048 and drops the others; every
\* other cell, the stack and the output are unchanged.
C15_MemWriteEffect ==
    [][(Fetching /\ Current.op = "MemWrite" /\ Current.addr >= 0 /\ Current.addr < MemSize)
         => /\ pc' = "running"
            /\ i' = i + 1
            /\ \A k \in 0..(MemSize - 1) :
                  mem'[k] = IF k >= Current.addr /\ k - Current.addr < Len(Current.values)
                            THEN Current.values[k - Current.addr + 1]
                            ELSE mem[k]
            /\ UNCHANGED <<stack, output_buffer>>]_vars

\* C15, its case: MemWrite(2046, [328, 72, -56]) has stored two values and
\* dropped the third
C15_Witness ==
    /\ instructions = <<MemWrite(MemSize - 2, <<328, 72, -56>>)>>
    /\ pc = "running"
    /\ i = 1
    /\ mem[MemSize - 2] = 328
    /\ mem[MemSize - 1] = 72
    /\ mem[0] = 0

\* C16: MemWrite(addr, values) with addr < 0 or addr >= 2048 changes no cell
\* of the memory, leaves the stack unchanged, and the execution goes on with
\* the next instruction.
C16_MemWriteBadAddress ==
    [][(Fetching /\ Current.op = "MemWrite" /\ (Current.addr < 0 \/ Current.addr >= MemSize))
         => /\ pc' = "running"
            /\ i' = i + 1
            /\ UNCHANGED <<stack, mem>>]_vars

\* C17: MemRead(addr) pushes memory[addr] for 0 <= addr < 2048 and pushes
\* nothing for addr < 0 or addr >= 2048; the memory is unchanged and the
\* execution goes on with the next instruction.
C17_MemRead ==
    [][(Fetching /\ Current.op = "MemRead")
         => /\ pc' = "running"
            /\ i' = i + 1
            /\ stack' = IF Current.addr >= 0 /\ Current.addr < MemSize
                        THEN Append(stack, mem[Current.addr])
                        ELSE stack
            /\ UNCHANGED mem]_vars

\* C18: Print(addr, len) with a valid range appends exactly len bytes to the
\* output, the k-th being the low 8 bits of memory[addr + k], and leaves the
\* memory and the stack unchanged.
C18_PrintOutput ==
    [][(Fetching /\ Current.op = "Print" /\ RangeValid)
         => /\ pc' = "running"
            /\ i' = i + 1
            /\ output_buffer' =
                  output_buffer \o [k \in 1..Current.len |-> mem[Current.addr + k - 1] % 256]
            /\ UNCHANGED <<stack, mem>>]_vars

\* C19: Print(addr, len) whose range is not within the memory appends nothing
\* to the output, leaves the stack and the memory unchanged, and the execution
\* goes on with the next instruction.
C19_PrintBadRange ==
    [][(Fetching /\ Current.op = "Print" /\ ~RangeValid)
         => /\ pc' = "running"
            /\ i' = i + 1
            /\ UNCHANGED <<stack, mem, output_buffer>>]_vars

\* C20: every execution starts with an empty stack and 2048 cells of memory
\* that are all 0, and the memory has exactly 2048 cells in every state of the
\* execution, the one it returns in included.
C20_MemoryShape ==
    /\ stack = <<>>
    /\ mem = [k \in 0..(MemSize - 1) |-> 0]
    /\ [](DOMAIN mem = 0..(MemSize - 1))

\* C20, its case: the execution of [MemWrite(2047, [72, -56]), MemRead(2047)]
\* has returned, with the memory written at its last cell
C20_Witness ==
    /\ instructions = <<MemWrite(MemSize - 1, <<72, -56>>), MemRead(MemSize - 1)>>
    /\ pc = "returned"
    /\ stack = <<72>>
    /\ mem[MemSize - 1] = 72

----------------------------------------------------------------------------
(* The execution engine: halting. *)

\* C21: the execution stops exactly when a Ret is executed, when the
\* instruction pointer reaches the program length, or on a jump whose
\* condition holds and whose target is invalid; nothing runs after it has
\* stopped, and the stack, memory and output as they stand are the result.
C21_HaltingConditions ==
    /\ [][Fetching
            => ((pc' = "returned" \/ i' >= Len(instructions))
                  <=> \/ Current.op = "Ret"
                      \/ i' >= Len(instructions)
                      \/ JumpConditionHolds /\ ~JumpTargetValid)]_vars
    /\ [][(pc = "running" /\ i >= Len(instructions)) => pc' = "returned"]_vars
    /\ [][pc' = "returned" => UNCHANGED <<stack, mem, output_buffer>>]_vars
    /\ [][pc # "returned"]_vars

----------------------------------------------------------------------------
(* The assembler: the lines it drops and the operands it reads. *)

\* the line of ParseLines that has the text of line k of the source
LineOf(k) == CHOOSE r \in ParseLines : r.text = source[k]

\* C22: a line with an unrecognized mnemonic or with an operand of the wrong
\* type produces no instruction, and every well-formed instruction line of the
\* same source produces its instruction, in the order of the lines.
C22_MalformedLinesDropped ==
    apc = "parsed"
      => LET RECURSIVE Expected(_)
             Expected(k) ==
                 IF k > Len(source) THEN <<>>
                 ELSE (CASE LineOf(k).kind = "ok" -> <<LineOf(k).instruction>>
                         [] LineOf(k).kind \in {"unknown", "type"} -> <<>>
                         [] OTHER -> parse_instructions(<<source[k]>>))
                        \o Expected(k + 1)
         IN  result = Expected(1)

\* C22, its case: "BOGUS", "PUSH x" (no instruction) and then "RET"
C22_Witness ==
    /\ source = <<<<66, 79, 71, 85, 83>>, <<80, 85, 83, 72, 32, 120>>, <<82, 69, 84>>>>
    /\ apc = "parsed"
    /\ result = <<Ret>>

\* C23: a line whose number of operands is not the one its mnemonic requires
\* produces no instruction: one-operand and two-operand mnemonics with fewer
\* or more operands, and zero-operand mnemonics followed by extra tokens.
C23_OperandCount ==
    apc = "parsed"
      => \A k \in 1..Len(source) :
            LineOf(k).kind = "count" => parse_instructions(<<source[k]>>) = <<>>

\* C26: a MEMWRITE line with an integer address yields MemWrite(addr, values),
\* values being the trailing tokens that parse as i32, in order, the others
\* filtered out; the line is dropped only when the address is missing or is
\* not an integer.
C26_MemWriteOperands ==
    apc = "parsed"
      => \A k \in 1..Len(source) :
            LET parts == split_whitespace(source[k])
                before == Len(parse_instructions(SubSeq(source, 1, k - 1)))
                upto == Len(parse_instructions(SubSeq(source, 1, k)))
                trailing == SelectSeq(SubSeq(parts, 3, Len(parts)),
                                      LAMBDA t : parse_i32(t).ok)
            IN  (parts # <<>> /\ to_uppercase(parts[1]) = <<77, 69, 77, 87, 82, 73, 84, 69>>)
                  => IF Len(parts) >= 2 /\ parse_i32(parts[2]).ok
                     THEN /\ upto = before + 1
                          /\ Len(result) >= upto
                          /\ result[upto] =
                               MemWrite(parse_i32(parts[2]).val,
                                        [j \in 1..Len(trailing) |-> parse_i32(trailing[j]).val])
                     ELSE upto = before

\* C26, its case: "MEMWRITE 0 72 x -1 2147483648" has become MemWrite(0, [72, -1])
C26_Witness ==
    /\ source = <<<<77, 69, 77, 87, 82, 73, 84, 69, 32, 48, 32, 55, 50, 32, 120, 32, 45, 49, 32,
                    50, 49, 52, 55, 52, 56, 51, 54, 52, 56>>>>
    /\ apc = "parsed"
    /\ result = <<MemWrite(0, <<72, -1>>)>>

----------------------------------------------------------------------------
(* The assembler and the codec together. *)

\* C24: a Jiz or Jnz whose target is not a defined label keeps the text of its
\* target through the assembly, a non-negative integer and an unknown name
\* alike, and encoding then decoding the Program preserves that text.
C24_TargetsKept ==
    \A k \in 1..Len(result) :
        (result[k].op \in {"Jiz", "Jnz"}
           /\ parse_instructions(source)[k].target \notin DOMAIN labels)
          => /\ apc = "resolved" => result[k].target = parse_instructions(source)[k].target
             /\ cpc = "decoded"
                  => /\ decoded.ok
                     /\ Len(decoded.instructions) >= k
                     /\ decoded.instructions[k] = parse_instructions(source)[k]

\* C27: for every source text, decoding the bytecode it is assembled to
\* succeeds and yields the Program the assembler produces for the text, a
\* MEMWRITE line with an address and no values included.
C27_AssemblePipeline ==
    cpc = "decoded" => (decoded.ok /\ decoded.instructions = result)

----------------------------------------------------------------------------
(* The assembler: comments and letter case. *)

\* C25: inserting a blank line or a line that is only a comment anywhere in a
\* source, or appending "; text" to any of its lines, changes neither the
\* assembled Program nor the address of any label.
C25_CommentsTransparent ==
    apc = "resolved"
      => /\ \A p \in 0..Len(source) :
               \A c \in {<<>>, <<32, 9>>, <<59, 32, 99>>, <<32, 59, 80, 79, 80>>} :
                  LET longer == SubSeq(source, 1, p) \o <<c>>
                                  \o SubSeq(source, p + 1, Len(source))
                  IN  split_instructions(longer) = result /\ collect_labels(longer) = labels
         /\ \A k \in 1..Len(source) :
               \A c \in {<<59, 32, 116, 101, 120, 116>>, <<32, 59, 120, 58>>} :
                  LET commented == [source EXCEPT ![k] = @ \o c]
                  IN  split_instructions(commented) = result
                        /\ collect_labels(commented) = labels

\* C25, its case: a comment line, then "main:" and "JNZ main"
C25_Witness ==
    /\ source = <<<<59, 32, 110, 111, 116, 101>>, <<109, 97, 105, 110, 58>>,
                  <<74, 78, 90, 32, 109, 97, 105, 110>>>>
    /\ apc = "resolved"
    /\ result = <<Jnz(<<48>>)>>

\* C29: changing the letter case of the mnemonic of any line of a source does
\* not change the assembled Program, and a jump target that differs from a
\* defined label only in letter case is not resolved to that label's address.
C29_LetterCase ==
    apc = "resolved"
      => /\ \A k \in 1..Len(source) :
               \A shift \in {-32, 32} :
                  LET line == source[k]
                      recased == [j \in 1..Len(line) |->
                                     IF j > WordLen(line) THEN line[j]
                                     ELSE IF shift = -32 /\ line[j] \in 97..122 THEN line[j] - 32
                                     ELSE IF shift = 32 /\ line[j] \in 65..90 THEN line[j] + 32
                                     ELSE line[j]]
                  IN  (/\ extract_code_portion(line) # <<>>
                       /\ ~is_label_definition(extract_code_portion(line)))
                        => split_instructions([source EXCEPT ![k] = recased]) = result
         /\ \A k \in 1..Len(result) :
               LET ins == parse_instructions(source)[k]
               IN  (/\ ins.op \in {"Jiz", "Jnz"}
                    /\ ins.target \notin DOMAIN labels
                    /\ \E name \in DOMAIN labels :
                          Len(name) = Len(ins.target)
                            /\ \A j \in 1..Len(name) :
                                  name[j] - ins.target[j] \in {-32, 0, 32})
                     => result[k].target = ins.target

\* C29, its case: "main:", then "jiz Main" (not the label) and "push 1"
C29_Witness ==
    /\ source = <<<<109, 97, 105, 110, 58>>, <<106, 105, 122, 32, 77, 97, 105, 110>>,
                  <<112, 117, 115, 104, 32, 49>>>>
    /\ apc = "resolved"
    /\ result = <<Jiz(<<77, 97, 105, 110>>), Push(1)>>

----------------------------------------------------------------------------
(* The codec: the opcode tags. *)

\* C28: the encoding of every instruction begins with the one-byte tag the
\* opcode table gives its kind (NULL 0x00 through PRINT 0x13), no two kinds
\* are encoded with the same tag, and the decoder maps each tag back to the
\* kind the encoder used it for.
C28_OpcodeTags ==
    LET Table == ("Null" :> 0) @@ ("Push" :> 1) @@ ("Dup" :> 2) @@ ("Swap" :> 3)
                   @@ ("Pop" :> 4) @@ ("Ret" :> 5) @@ ("Jiz" :> 6) @@ ("Jnz" :> 7)
                   @@ ("AddS" :> 8) @@ ("Add" :> 9) @@ ("SubS" :> 10) @@ ("Sub" :> 11)
                   @@ ("MultS" :> 12) @@ ("Mult" :> 13) @@ ("DivS" :> 14) @@ ("Div" :> 15)
                   @@ ("MemWrite" :> 16) @@ ("MemWriteS" :> 17) @@ ("MemRead" :> 18) @@ ("Print" :> 19)
    IN  /\ \A k \in 1..Len(program) :
              serialize_instruction(program[k])[1] = Table[program[k].op]
        /\ \A a \in DOMAIN Table : \A b \in DOMAIN Table : Table[a] = Table[b] => a = b
        /\ \A k \in 1..Len(program) : \A m \in 1..Len(program) :
              serialize_instruction(program[k])[1] = serialize_instruction(program[m])[1]
                => program[k].op = program[m].op
        /\ (cpc = "decoded" /\ bytecode # <<>>)
             => LET r == deserialize_instruction(bytecode)
                IN  r.ok => Table[r.instruction.op] = bytecode[1]
        /\ (cpc = "decoded" /\ decoded.ok)
             => \A k \in 1..Len(decoded.instructions) :
                   k <= Len(program) => decoded.instructions[k].op = program[k].op

\* C28, its case: Sub and a MemWrite of two values, written and read back
C28_Witness ==
    /\ program = <<Sub, MemWrite(-1, <<72, -2>>)>>
    /\ cpc = "decoded"
    /\ bytecode[1] = 11
    /\ Len(bytecode) = 18
    /\ bytecode[2] = 16
    /\ decoded.ok
    /\ decoded.instructions = program

----------------------------------------------------------------------------
(* execute: one call after another. *)

\* C30: what an execution returns (the final stack, the final memory) and the
\* bytes it appends to the output depend only on the Program: two calls with
\* the same Program, whatever was run in between, return the same, and every
\* call starts with an empty stack and a memory of zeros.
C30_IndependentRuns ==
    /\ [](\A a \in 1..Len(runs) :
             /\ \A b \in 1..Len(runs) :
                   runs[a].instructions = runs[b].instructions
                     => /\ runs[a].stack = runs[b].stack
                        /\ runs[a].mem = runs[b].mem
                        /\ runs[a].appended = runs[b].appended
             /\ (pc = "returned" /\ runs[a].instructions = instructions)
                  => /\ runs[a].stack = stack
                     /\ runs[a].mem = mem
                     /\ runs[a].appended = Appended)
    /\ [][Len(runs') > Len(runs)
            => /\ stack' = <<>>
               /\ \A k \in 0..(MemSize - 1) : mem'[k] = 0
               /\ i' = 0]_vars

\* C30, its case: the Program that reads cell 0 has returned a second time,
\* after the Program that writes cell 0 and leaves 7 on the stack
C30_Witness ==
    /\ Len(runs) = 2
    /\ runs[1].instructions = <<MemRead(0), Dup, PrintI(0, 2)>>
    /\ runs[2].instructions = <<Push(7), Push(72), MemWriteS(0, 1), PrintI(0, 1)>>
    /\ runs[2].stack = <<7>>
    /\ runs[2].mem[0] = 72
    /\ runs[2].appended = <<72>>
    /\ instructions = runs[1].instructions
    /\ pc = "returned"
    /\ stack = <<0, 0>>
    /\ Appended = <<0, 0>>

----------------------------------------------------------------------------
(* The execution engine: the width of the values, the instruction pointer, *)
(* termination and the frame conditions.                                    *)

\* C34: every value on the stack and in every memory cell is in
\* -2^31..2^31-1 after any sequence of instructions, and whenever the exact
\* sum, difference or product of Add, AddS, Sub, SubS, Mult or MultS is in
\* that range, the value placed on the stack is that exact result.
C34_ValuesAre32Bit ==
    /\ [](\A k \in 1..Len(stack) : stack[k] \in MinI32..MaxI32)
    /\ \A k \in DOMAIN mem : mem[k] \in MinI32..MaxI32
    /\ [][mem' # mem => \A k \in DOMAIN mem' : mem'[k] \in MinI32..MaxI32]_vars
    /\ [][(Fetching /\ Current.op \in {"Add", "Sub", "Mult"} /\ Len(stack) >= 2)
            => /\ (Current.op = "Add" /\ ~AddOverflows(TopB, TopA))
                    => pc' = "running" /\ stack' = Append(Below(2), TopB + TopA)
               /\ (Current.op = "Sub" /\ ~SubOverflows(TopB, TopA))
                    => pc' = "running" /\ stack' = Append(Below(2), TopB - TopA)
               /\ (Current.op = "Mult" /\ ~MulOverflows(TopB, TopA))
                    => pc' = "running" /\ stack' = Append(Below(2), TopB * TopA)]_vars
    /\ [][(Fetching /\ Current.op \in {"AddS", "SubS", "MultS"} /\ stack # <<>>)
            => /\ (Current.op = "AddS" /\ ~AddOverflows(TopA, Current.n))
                    => pc' = "running" /\ stack' = Append(Below(1), TopA + Current.n)
               /\ (Current.op = "SubS" /\ ~SubOverflows(TopA, Current.n))
                    => pc' = "running" /\ stack' = Append(Below(1), TopA - Current.n)
               /\ (Current.op = "MultS" /\ ~MulOverflows(TopA, Current.n))
                    => pc' = "running" /\ stack' = Append(Below(1), TopA * Current.n)]_vars

\* C34, its case: -1 - (-2^31) is 2^31 - 1, the largest value, and 7 * -1 is -7
C34_Witness ==
    /\ pc = "running"
    /\ \/ instructions = <<Push(-1), Push(MinI32), Sub>> /\ i = 3 /\ stack = <<MaxI32>>
       \/ instructions = <<Push(7), Push(-1), Mult>> /\ i = 3 /\ stack = <<-7>>

\* C36: in every reachable state of an execution the instruction pointer is
\* between 0 and the length of the Program, an instruction is fetched only
\* when the pointer is less than that length, and every instruction other
\* than Jiz, Jnz and Ret advances the pointer by exactly one.
C36_PointerInRange ==
    /\ [](i >= 0 /\ i <= Len(instructions))
    /\ [][(pc = "running" /\ i >= Len(instructions))
            => UNCHANGED <<i, stack, mem, output_buffer>>]_vars
    /\ [][(Fetching /\ Current.op \notin {"Jiz", "Jnz", "Ret"}) => i' = i + 1]_vars

\* a Program with no jump
JumpFree == \A k \in 1..Len(instructions) : instructions[k].op \notin {"Jiz", "Jnz"}

\* C37: the execution of a Program with no Jiz and no Jnz ends after at most
\* as many instructions as the Program has: each instruction is executed at
\* most once, in address order (the pointer counts the instructions executed).
\* The execution ends when execute returns, or panics (C5).
C37_JumpFreeTerminates ==
    /\ <>(JumpFree => pc \in {"returned", "panicked"})
    /\ [](JumpFree => i <= Len(instructions))
    /\ [][(JumpFree /\ Fetching)
            => /\ pc' = "running" => i' = i + 1
               /\ pc' # "running" => i' = i]_vars
    /\ [][(JumpFree /\ pc # "running") => UNCHANGED <<i, stack, mem, output_buffer>>]_vars

\* C37, its case: [Push(7), Swap, Push(5), Swap] has returned after four
\* instructions
C37_Witness ==
    /\ instructions = <<Push(7), Swap, Push(5), Swap>>
    /\ pc = "returned"
    /\ i = 4
    /\ stack = <<5, 7>>

\* C38: only MemWrite and MemWriteS change a cell of the memory; Null, Jiz,
\* Jnz, Ret, Print and MemWrite never change the stack; so a Program without
\* MemWrite and MemWriteS returns a memory of zeros.
C38_FrameConditions ==
    /\ [][mem' # mem => (Fetching /\ Current.op \in {"MemWrite", "MemWriteS"})]_vars
    /\ [][(Fetching /\ Current.op \in {"Null", "Jiz", "Jnz", "Ret", "Print", "MemWrite"})
            => stack' = stack]_vars
    /\ []((/\ pc = "returned"
           /\ \A k \in 1..Len(instructions) :
                 instructions[k].op \notin {"MemWrite", "MemWriteS"})
            => mem = [k \in 0..(MemSize - 1) |-> 0])

\* C38, its case: [Push(7), Print(0, 1)] has returned: the Print left the
\* stack and the memory as they were and wrote one byte
C38_Witness ==
    /\ instructions = <<Push(7), PrintI(0, 1)>>
    /\ pc = "returned"
    /\ stack = <<7>>
    /\ output_buffer = <<0>>
    /\ mem[0] = 0

\* C39: execute never removes or rewrites a byte of the output: at every step
\* the content before is a prefix of the content after, and only a Print with
\* a valid range and len > 0 makes it longer.
C39_OutputAppendOnly ==
    /\ [][/\ Len(output_buffer') >= Len(output_buffer)
          /\ SubSeq(output_buffer', 1, Len(output_buffer)) = output_buffer]_vars
    /\ [][output_buffer' # output_buffer
            => (Fetching /\ Current.op = "Print" /\ RangeValid /\ Current.len > 0)]_vars

\* C39, its case: [Print(0, 1), Print(0, 1)] has written a second byte after
\* the first
C39_Witness ==
    /\ pc = "returned"
    /\ instructions = <<PrintI(0, 1), PrintI(0, 1)>>
    /\ output_buffer = <<0, 0>>

----------------------------------------------------------------------------
(* The execution engine: the countdown loop. *)

\* C33: for every n >= 1 the Program [Push(n), SubS(1), Jnz("1"), Ret]
\* executes SubS exactly n times (each takes one from the value, which goes
\* from n to 0), then falls through the Jnz to the Ret and halts with the
\* stack [0].
C33_CountdownTerminates ==
    /\ <>(pc = "returned")
    /\ [](pc = "returned" => (i = 3 /\ stack = <<0>>))
    /\ [][(Fetching /\ i = 0) => (pc' = "running" /\ i' = 1 /\ stack' = <<Current.value>>)]_vars
    /\ [][(Fetching /\ i = 1)
            => /\ stack[1] >= 1
               /\ pc' = "running" /\ i' = 2 /\ stack' = <<stack[1] - 1>>]_vars
    /\ [][(Fetching /\ i = 2)
            => /\ pc' = "running" /\ stack' = stack
               /\ i' = IF stack[1] # 0 THEN 1 ELSE 3]_vars

\* C33, its case: the loop from 5 has returned
C33_Witness ==
    /\ instructions = <<Push(5), SubS(1), Jnz(<<49>>), Ret>>
    /\ pc = "returned"
    /\ stack = <<0>>

----------------------------------------------------------------------------
(* The codec: concatenation and re-encoding. *)

\* C32: the encoding of p ++ q is the encoding of p followed by the encoding
\* of q, with no header, separator or length; the encoding of the empty
\* Program is the empty byte sequence; and decoding the encoding of p
\* followed by the encoding of q yields p ++ q.
C32_Concatenation ==
    LET p(k) == SubSeq(program, 1, k)
        q(k) == SubSeq(program, k + 1, Len(program))
    IN  /\ serialize_instructions(<<>>) = <<>>
        /\ \A k \in 0..Len(program) :
              /\ serialize_instructions(p(k) \o q(k))
                   = serialize_instructions(p(k)) \o serialize_instructions(q(k))
              /\ cpc = "encoded"
                   => bytecode = serialize_instructions(p(k)) \o serialize_instructions(q(k))
              /\ (cpc = "decoded"
                    /\ bytecode = serialize_instructions(p(k)) \o serialize_instructions(q(k)))
                   => (decoded.ok /\ decoded.instructions = p(k) \o q(k))

\* C35: for every byte sequence that decodes successfully, encoding what was
\* decoded gives the same bytes, so no two byte sequences decode to the same
\* Program.
C35_ReencodingIsIdentity ==
    (cpc = "decoded" /\ decoded.ok)
      => serialize_instructions(decoded.instructions) = bytecode

\* C35, its case: the bytes of [Jnz("12"), MemWrite(-1, [72, -2])] followed by
\* one more zero byte were decoded as three instructions
C35_Witness ==
    /\ program = <<Jnz(<<49, 50>>), MemWrite(-1, <<72, -2>>)>>
    /\ cpc = "decoded"
    /\ bytecode = serialize_instructions(program) \o <<0>>
    /\ decoded.ok
    /\ decoded.instructions = Append(program, Null)

----------------------------------------------------------------------------
(* The assembler: a label defined more than once. *)

\* the lines that define the label
Definitions(name) == {k \in 1..Len(source) : IsLabelLine(k) /\ LabelName(k) = name}

\* the address the definition on line k binds its label to: the number of
\* lines before it that take an instruction slot
BoundAt(k) ==
    Cardinality({j \in 1..(k - 1) : CleanLine(j) # <<>> /\ ~is_label_definition(CleanLine(j))})

\* C40: when a label is defined on more than one line of a source, every jump
\* to it, before, between or after the definitions, is resolved to the
\* address bound by the last of the definitions.
C40_LastDefinitionWins ==
    apc = "resolved"
      => \A name \in LabelNames :
            Cardinality(Definitions(name)) > 1
              => /\ labels[name] = BoundAt(LastDefinition(name))
                 /\ \A k \in 1..Len(result) :
                       LET ins == parse_instructions(source)[k]
                       IN  (ins.op \in {"Jiz", "Jnz"} /\ ins.target = name)
                             => result[k].target = to_string(BoundAt(LastDefinition(name)))

\* C40, its case: "main:", "PUSH 1", "main:", "JNZ main": the jump goes to 1
C40_Witness ==
    /\ source = <<<<109, 97, 105, 110, 58>>, <<80, 85, 83, 72, 32, 49>>,
                  <<109, 97, 105, 110, 58>>, <<74, 78, 90, 32, 109, 97, 105, 110>>>>
    /\ apc = "resolved"
    /\ result = <<Push(1), Jnz(<<49>>)>>

----------------------------------------------------------------------------
(* The command line: the file types. *)

\* the command is a run command with a file name
RunCommand ==
    Len(args) >= 3 /\ args[2] \in {<<114, 117, 110>>, <<45, 45, 114, 117, 110>>, <<45, 114>>}

\* the command is an assemble command with two file names
AssembleCommand ==
    /\ Len(args) >= 4
    /\ args[2] \in {<<97, 115, 115, 101, 109, 98, 108, 101>>,
                    <<45, 45, 97, 115, 115, 101, 109, 98, 108, 101>>, <<45, 97>>}

IsAsv(name) == ends_with(name, <<46, 97, 115, 118>>)

IsVvm(name) == ends_with(name, <<46, 118, 118, 109>>)

\* C31: the run command, given a file name ending in .asv, assembles the
\* source and executes the result, and given a file name ending in .vvm,
\* loads the file as bytecode and executes it; the assemble command takes an
\* .asv input and a .vvm output.
C31_FileTypeDispatch ==
    /\ (RunCommand /\ IsAsv(args[3]) /\ args[3] \in DOMAIN files)
         => /\ cli # "exit"
            /\ cli \in {"execute", "done"}
                 => instructions = split_instructions(lines_of(files[args[3]]))
    /\ (RunCommand /\ IsVvm(args[3]) /\ args[3] \in DOMAIN files
          /\ deserialize_instructions(files[args[3]]).ok)
         => /\ cli # "exit"
            /\ cli \in {"execute", "done"}
                 => instructions = deserialize_instructions(files[args[3]]).instructions
    /\ (AssembleCommand /\ IsAsv(args[3]) /\ IsVvm(args[4]) /\ args[3] \in DOMAIN files)
         => /\ cli # "exit"
            /\ cli = "done"
                 => /\ args[4] \in DOMAIN files
                    /\ files[args[4]] = assemble_source(files[args[3]])

====
